---- MODULE Spec2Model ----
(***************************************************************************)
(* A model of hlandau/acmeapi: the nonce pool (nonce.go) and the request   *)
(* pipeline of RealmClient (api-res.go): doReq with its bad-nonce retry    *)
(* loop, doReqServer's nonce harvesting and directory auto-discovery, and  *)
(* the single-flighted directory cache.                                    *)
(*                                                                         *)
(* Every goroutine is a process with a call stack of frames; an action     *)
(* executes one step of the function on top of a stack. Steps are cut at   *)
(* the accesses to shared state (the pool under its mutex, the atomic      *)
(* directory snapshot, the two directory locks), so the interleavings of   *)
(* the model are those of the code. A function that is about to return     *)
(* rests at pc "ret" with its results in the field out.                    *)
(***************************************************************************)
EXTENDS Integers, Sequences, FiniteSets, TLC

(***************************************************************************)
(* Bounds of the model.                                                    *)
(***************************************************************************)
MaxTokens   == 3   \* distinct nonce values in play
MaxRefill   == 2   \* AddNonce calls one stub refill callback may make
MaxBadNonce == 2   \* badNonce answers of the server under concurrent use
MaxLog      == 3   \* attempts of a call whose outcome is remembered
MaxBusy     == 1   \* answers of the server that leave an order unfinished

Procs   == {1, 2}  \* the goroutines using one client / one pool
Tokens  == 1 .. MaxTokens
NoToken == 0       \* the empty string "" of nonce.go
NoProc  == 0

Min(a, b) == IF a < b THEN a ELSE b

(***************************************************************************)
(* Errors. kind "nil" is Go's nil error. An *HTTPError carries the type of *)
(* its parsed Problem: ptype is "nil" when HTTPError.Problem is nil; and   *)
(* the status of the response it carries as Res.                           *)
(***************************************************************************)
NoStatus         == 0
Err(kind)        == [kind |-> kind, ptype |-> "-", status |-> NoStatus]
NoErr            == Err("nil")
ErrOutOfNonces   == Err("out of nonces - this should never happen")
ErrNoAdditional  == Err("failed to retrieve additional nonce")
ErrStub          == Err("refill failed")

(***************************************************************************)
(* nonceSource: the pool is a set (a Go map[string]struct{}).              *)
(***************************************************************************)
\* tryPop: the (k, pool') pairs one locked tryPop can produce. Go's map
\* iteration order is unspecified, so any member may be the one removed.
tryPopNoDelete(p) ==
  IF p = {} THEN {[k |-> NoToken, pool |-> p]}
  ELSE {[k |-> t, pool |-> p] : t \in p}

tryPopLosesKey(p) ==
  IF p = {} THEN {[k |-> NoToken, pool |-> p]}
  ELSE {[k |-> NoToken, pool |-> p \ {t}] : t \in p}

tryPop(p) ==
  IF p = {} THEN {[k |-> NoToken, pool |-> p]}
  ELSE {[k |-> t, pool |-> p \ {t}] : t \in p}

\* AddNonce: ns.pool[nonce] = struct{}{} under the mutex.
AddNonceDropsOthers(p, nonce) == {nonce}

AddNonce(p, nonce) == p \cup {nonce}

(***************************************************************************)
(* State.                                                                  *)
(***************************************************************************)
VARIABLES
  pool,          \* nonceSource.pool
  GetNonceFunc,  \* nonceSource.GetNonceFunc: "nil", "stub" or "obtainNewNonce"
  directoryURL,  \* RealmClient.cfg.DirectoryURL ("" when not known)
  dir,           \* RealmClient.dir, the atomic snapshot (NoDir when unset)
  dirMutex,      \* RealmClient.dirMutex: the process holding it, or NoProc
  stack,         \* the call stack of every process, innermost frame last
  srv,           \* the server: its mode and the badNonce answers it has left
  now,           \* time.Now(), in seconds since the client was made
  taken,         \* the tokens a Nonce call returned and nobody added since
  twice          \* a Nonce call returned a token that was in taken
                 \* (both are kept for a bare nonceSource only, see Took)

vars == <<pool, GetNonceFunc, directoryURL, dir, dirMutex, stack, srv, now, taken, twice>>

clientVars == <<directoryURL, dir, dirMutex, srv>>

\* taken after a Nonce call returned token t. Under a client the calls of
\* doReq keep the tokens they sent themselves (toks), and taken stays empty.
Took(t) == IF srv.mode = "none" THEN taken \cup {t} ELSE taken

(***************************************************************************)
(* Call stacks.                                                            *)
(***************************************************************************)
Top(p)    == stack[p][Len(stack[p])]
Depth(p)  == Len(stack[p])
Idle(p)   == stack[p] = <<>>
At(p, fn, pc) == ~Idle(p) /\ Top(p).fn = fn /\ Top(p).pc = pc

\* A stack after another process moved: its Nonce call is no longer alone.
Disturbed(s) ==
  [i \in 1 .. Len(s) |-> IF s[i].fn = "Nonce" THEN [s[i] EXCEPT !.solo = FALSE] ELSE s[i]]

\* The stacks after p moved and made its own stack sp.
Moved(p, sp) == [q \in Procs |-> IF q = p THEN sp ELSE Disturbed(stack[q])]

\* The stack of p with its top frame replaced by f / with callee pushed on
\* the top frame f / with the top frame popped and its results handed to the
\* caller as ret.
SetTop(p, f)       == [stack[p] EXCEPT ![Len(stack[p])] = f]
Call(p, f, callee) == Append(SetTop(p, f), callee)
Popped(p) ==
  LET s == stack[p] n == Len(s) IN
  [i \in 1 .. (n - 1) |-> IF i = n - 1 THEN [s[i] EXCEPT !.ret = s[n].out] ELSE s[i]]

\* A stack in which the Nonce call waiting for its refill callback (if any)
\* has noted that the callback added token t.
NoteAdd(s, t) ==
  [i \in 1 .. Len(s) |->
     IF s[i].fn = "Nonce"
     THEN [s[i] EXCEPT !.cbN = Min(@ + 1, MaxRefill + 1), !.cbTok = t,
                       !.cbFresh = @ \/ t \notin pool]
     ELSE s[i]]

\* What a call hands back: a token (Nonce), a directory (getDirectory), a
\* response (doReq), and the error.
NoDir == [NewNonce |-> "", NewAccount |-> "", NewOrder |-> "", NewAuthz |-> "",
          RevokeCert |-> "", Meta |-> "-"]
NoRes == [status |-> 0, nonce |-> NoToken, link |-> "", ctype |-> "", body |-> ""]
Ret(tok, d, res, err) == [tok |-> tok, dir |-> d, res |-> res, err |-> err]
NoRet   == Ret(NoToken, NoDir, NoRes, NoErr)
RetErr(e)  == Ret(NoToken, NoDir, NoRes, e)
RetTok(t)  == Ret(t, NoDir, NoRes, NoErr)

\* return: the callee's frame leaves the stack.
ReturnStep(p) ==
  /\ ~Idle(p) /\ Top(p).pc = "ret"
  /\ stack' = Moved(p, Popped(p))
  /\ UNCHANGED <<pool, GetNonceFunc, now, clientVars, taken, twice>>

(***************************************************************************)
(* nonceSource.Nonce (nonce.go:32-51), obtainNonce (65-71).                *)
(***************************************************************************)
NonceFrame ==
  [fn |-> "Nonce", pc |-> "pop1", ret |-> NoRet, out |-> NoRet,
   n |-> 0,            \* invocations of GetNonceFunc
   empty0 |-> FALSE,   \* the first tryPop found the pool empty
   cbN |-> 0,          \* AddNonce calls made by the refill callback
   cbTok |-> NoToken,  \* the token of the last of them
   cbFresh |-> FALSE,  \* one of them added a token the pool did not hold
   solo |-> TRUE,      \* no other process has moved since the call began
   emptyAfter |-> FALSE] \* the pool was empty when the call returned

\* k := ns.tryPop(); if k != "" { return k, nil }
NonceTryPop1(p) ==
  /\ At(p, "Nonce", "pop1")
  /\ \E o \in tryPop(pool) :
       /\ pool' = o.pool
       /\ IF o.k # NoToken
          THEN /\ stack' = Moved(p, SetTop(p, [Top(p) EXCEPT !.pc = "ret",
                             !.out = RetTok(o.k), !.emptyAfter = (o.pool = {})]))
               /\ taken' = Took(o.k)
               /\ twice' = (twice \/ o.k \in taken)
          ELSE /\ stack' = Moved(p, SetTop(p, [Top(p) EXCEPT !.pc = "obtain",
                                                              !.empty0 = TRUE]))
               /\ UNCHANGED <<taken, twice>>
  /\ UNCHANGED <<GetNonceFunc, now, clientVars>>

\* err := ns.obtainNonce(ctx): an error when GetNonceFunc is nil, else the
\* callback is called.
NonceObtain(p) ==
  /\ At(p, "Nonce", "obtain")
  /\ IF GetNonceFunc = "nil"
     THEN stack' = Moved(p, SetTop(p, [Top(p) EXCEPT !.pc = "ret",
                      !.out = RetErr(ErrOutOfNonces), !.emptyAfter = (pool = {})]))
     ELSE stack' = Moved(p, Call(p, [Top(p) EXCEPT !.pc = "pop2", !.n = @ + 1],
                      [fn |-> GetNonceFunc, pc |-> "begin", ret |-> NoRet,
                       out |-> NoRet, n |-> 0]))
  /\ UNCHANGED <<pool, GetNonceFunc, now, clientVars, taken, twice>>

\* (the same step without its "if err != nil" return)
NonceTryPop2IgnoresErr(p) ==
  /\ At(p, "Nonce", "pop2")
  /\ \E o \in tryPop(pool) :
       /\ pool' = o.pool
       /\ stack' = Moved(p, SetTop(p, [Top(p) EXCEPT !.pc = "ret",
                     !.out = IF o.k # NoToken THEN RetTok(o.k)
                             ELSE RetErr(ErrNoAdditional),
                     !.emptyAfter = (o.pool = {})]))
       /\ taken' = IF o.k # NoToken THEN Took(o.k) ELSE taken
       /\ twice' = (twice \/ o.k \in taken)
  /\ UNCHANGED <<GetNonceFunc, now, clientVars>>

\* if err != nil { return "", err }; k = ns.tryPop(); if k != "" { return k, nil }
\* return "", errors.New("failed to retrieve additional nonce")
NonceTryPop2(p) ==
  /\ At(p, "Nonce", "pop2")
  /\ IF Top(p).ret.err # NoErr
     THEN /\ stack' = Moved(p, SetTop(p, [Top(p) EXCEPT !.pc = "ret",
                        !.out = RetErr(Top(p).ret.err), !.emptyAfter = (pool = {})]))
          /\ UNCHANGED <<pool, taken, twice>>
     ELSE \E o \in tryPop(pool) :
            /\ pool' = o.pool
            /\ stack' = Moved(p, SetTop(p, [Top(p) EXCEPT !.pc = "ret",
                          !.out = IF o.k # NoToken THEN RetTok(o.k)
                                  ELSE RetErr(ErrNoAdditional),
                          !.emptyAfter = (o.pool = {})]))
            /\ taken' = IF o.k # NoToken THEN Took(o.k) ELSE taken
            /\ twice' = (twice \/ o.k \in taken)
  /\ UNCHANGED <<GetNonceFunc, now, clientVars>>

(***************************************************************************)
(* A bare nonceSource and its users: goroutines that call Nonce and        *)
(* AddNonce, and a GetNonceFunc that is nil or a stub. The stub does what  *)
(* nonce.go:11-15 allows a callback to do: it calls AddNonce any number of *)
(* times (none included) and returns nil or an error.                      *)
(***************************************************************************)
PoolCallNonce(p) ==
  /\ Idle(p)
  /\ stack' = Moved(p, <<NonceFrame>>)
  /\ UNCHANGED <<pool, GetNonceFunc, now, clientVars, taken, twice>>

PoolCallAddNonce(p) ==
  /\ Idle(p)
  /\ \E t \in Tokens :
       stack' = Moved(p, <<[fn |-> "AddNonce", pc |-> "begin", ret |-> NoRet,
                            out |-> NoRet, nonce |-> t, had |-> FALSE]>>)
  /\ UNCHANGED <<pool, GetNonceFunc, now, clientVars, taken, twice>>

\* The body of AddNonce (nonce.go:75-80).
PoolAddNonce(p) ==
  /\ At(p, "AddNonce", "begin")
  /\ pool' = AddNonce(pool, Top(p).nonce)
  /\ taken' = taken \ {Top(p).nonce}
  /\ stack' = Moved(p, SetTop(p, [Top(p) EXCEPT !.pc = "ret",
                                                 !.had = (Top(p).nonce \in pool)]))
  /\ UNCHANGED <<GetNonceFunc, now, clientVars, twice>>

StubAddNonce(p) ==
  /\ At(p, "stub", "begin") /\ Top(p).n < MaxRefill
  /\ \E t \in Tokens :
       /\ pool' = AddNonce(pool, t)
       /\ taken' = taken \ {t}
       /\ stack' = Moved(p, NoteAdd(SetTop(p, [Top(p) EXCEPT !.n = @ + 1]), t))
  /\ UNCHANGED <<GetNonceFunc, now, clientVars, twice>>

StubReturn(p) ==
  /\ At(p, "stub", "begin")
  /\ \E e \in {NoErr, ErrStub} :
       stack' = Moved(p, SetTop(p, [Top(p) EXCEPT !.pc = "ret", !.out = RetErr(e)]))
  /\ UNCHANGED <<pool, GetNonceFunc, now, clientVars, taken, twice>>

InitPool ==
  /\ pool = {}
  /\ GetNonceFunc \in {"nil", "stub"}
  /\ directoryURL = "" /\ dir = NoDir /\ dirMutex = NoProc
  /\ srv = [mode |-> "none", bad |-> 0, busy |-> 0]
  /\ now = 0
  /\ stack = [p \in Procs |-> <<>>]
  /\ taken = {}
  /\ twice = FALSE

NextPool ==
  \E p \in Procs :
    \/ PoolCallNonce(p)
    \/ PoolCallAddNonce(p)
    \/ PoolAddNonce(p)
    \/ NonceTryPop1(p)
    \/ NonceObtain(p)
    \/ NonceTryPop2(p)
    \/ StubAddNonce(p)
    \/ StubReturn(p)
    \/ ReturnStep(p)

SpecPool == InitPool /\ [][NextPool]_vars

(***************************************************************************)
(* URLs (api-res.go:926-929). The model's URLs are the strings below;      *)
(* url.Parse fails on "%zz" alone, and Scheme is the scheme it finds.      *)
(***************************************************************************)
TestingAllowHTTP == FALSE

DirURL1   == "https://ca/dir"
DirURL2   == "https://ca2/dir"
HTTPDir   == "http://ca/dir"
ResURL    == "https://ca/order/1"
AuthzURL  == "https://ca/authz/1"
AcctURL   == "https://ca/acct/1"
SecureURLs == {DirURL1, DirURL2, ResURL, AcctURL, AuthzURL, "https://ca/new/1",
               "https://ca/new-nonce", "https://ca/new-acct", "https://ca/new-order",
               "https://ca/new-authz", "https://ca/revoke-cert"}

Parses(u) == u # "%zz"
Scheme(u) == IF u \in SecureURLs THEN "https" ELSE IF u = HTTPDir THEN "http" ELSE ""

ValidURL(u) ==
  Parses(u) /\ (Scheme(u) = "https" \/ (TestingAllowHTTP /\ Scheme(u) = "http"))

(***************************************************************************)
(* Requests: the arguments of doReq (api-res.go:1215).                     *)
(***************************************************************************)
Acct(url, key)  == [ref |-> "acct", URL |-> url, PrivateKey |-> key, Status |-> ""]
NilAcct         == [ref |-> "nil", URL |-> "", PrivateKey |-> "nil", Status |-> ""]
noAccountNeeded == [ref |-> "noAccountNeeded", URL |-> "", PrivateKey |-> "nil", Status |-> ""]

Req(method, url, acct, key, requestData, responseData) ==
  [method |-> method, url |-> url, acct |-> acct, key |-> key,
   requestData |-> requestData, responseData |-> responseData]

\* What the operations of the client pass to doReq: signed POSTs by key id
\* and by embedded key, a plain GET of a resource, and calls that doReqOneTry
\* rejects before it sends anything.
PostKid  == Req("POST", ResURL, Acct(AcctURL, "P-256"), "nil", TRUE, TRUE)
PostJWK  == Req("POST", ResURL, noAccountNeeded, "rsa", TRUE, FALSE)
GetRes   == Req("GET", ResURL, NilAcct, "nil", FALSE, TRUE)
Rejected == {Req("GET", HTTPDir, NilAcct, "nil", FALSE, TRUE),
             Req("POST", ResURL, NilAcct, "rsa", TRUE, TRUE),
             Req("POST", ResURL, Acct(AcctURL, "nil"), "nil", TRUE, TRUE),
             Req("POST", ResURL, Acct(AcctURL, "P-224"), "nil", TRUE, TRUE),
             Req("POST", ResURL, noAccountNeeded, "ed25519", TRUE, FALSE),
             Req("POST", ResURL, Acct("", "rsa"), "nil", TRUE, TRUE)}
\* Signed POSTs under the two larger curves.
PostP384 == Req("POST", ResURL, noAccountNeeded, "P-384", TRUE, FALSE)
PostP521 == Req("POST", ResURL, Acct(AcctURL, "nil"), "P-521", TRUE, FALSE)
\* A signed POST with a key of its own for an account that has a key.
PostOverride == Req("POST", ResURL, Acct(AcctURL, "P-256"), "P-384", TRUE, FALSE)
Requests == {PostKid, PostJWK, GetRes} \cup Rejected

\* doReqOneTry that prefers the key of the account.
SigningKeyAccountFirst(req) ==
  IF req.acct.PrivateKey # "nil" THEN req.acct.PrivateKey ELSE req.key

\* The key the request is signed with: key, or acct.PrivateKey when key is
\* nil (api-res.go:1261-1263).
SigningKey(req) == IF req.key = "nil" THEN req.acct.PrivateKey ELSE req.key

\* algorithmFromKey that takes any ECDSA curve for P-256.
algorithmFromKeyAnyCurve(key) ==
  CASE key = "rsa"     -> "RS256"
    [] key = "P-384"   -> "ES384"
    [] key = "P-521"   -> "ES512"
    [] key = "ed25519" -> ""
    [] OTHER           -> "ES256"

\* algorithmFromKey (api-res.go:1425-1444): "" stands for its error.
algorithmFromKey(key) ==
  CASE key = "rsa"   -> "RS256"
    [] key = "P-256" -> "ES256"
    [] key = "P-384" -> "ES384"
    [] key = "P-521" -> "ES512"
    [] OTHER         -> ""

\* The protected header of the signed request (api-res.go:1284-1304): the
\* algorithm, the url, and the key embedded (jwk) or the key id (kid); "-"
\* stands for a member the header does not have.
NoHeader == [alg |-> "-", url |-> "-", jwk |-> "-", kid |-> "-"]

\* A header that embeds the key whatever the account.
ProtectedHeaderAlwaysEmbeds(req) ==
  [alg |-> algorithmFromKey(SigningKey(req)), url |-> req.url,
   jwk |-> SigningKey(req),
   kid |-> IF req.acct.ref = "noAccountNeeded" THEN "-" ELSE req.acct.URL]

ProtectedHeader(req) ==
  LET useInlineKey == req.acct.ref = "noAccountNeeded" IN
  [alg |-> algorithmFromKey(SigningKey(req)), url |-> req.url,
   jwk |-> IF useInlineKey THEN SigningKey(req) ELSE "-",
   kid |-> IF useInlineKey THEN "-" ELSE req.acct.URL]

\* doReqOneTry that checks the URL of the request only.
ValidateURLOnly(req) ==
  IF ~ValidURL(req.url) THEN Err("invalid request URL") ELSE NoErr

\* The checks of doReqOneTry before it signs and sends (api-res.go:1250-1311):
\* the error it returns, NoErr when the request passes.
Validate(req) ==
  LET key == SigningKey(req) IN
  IF ~ValidURL(req.url) THEN Err("invalid request URL")
  ELSE IF ~req.requestData THEN NoErr
  ELSE IF req.acct.ref = "nil" THEN Err("must provide account object")
  ELSE IF key = "nil" THEN Err("account key must be specified")
  ELSE IF algorithmFromKey(key) = "" THEN Err("unsupported key")
  ELSE IF req.acct.ref # "noAccountNeeded" /\ ~ValidURL(req.acct.URL)
       THEN Err("acct must have a valid URL")
  ELSE NoErr

(***************************************************************************)
(* Responses. A response is its status, its Replay-Nonce header, the URI   *)
(* of its Link header of relation "index" ("" when it has none), its       *)
(* Content-Type and its body.                                              *)
(***************************************************************************)
BadNonceType == "urn:ietf:params:acme:error:badNonce"

DirA   == [NewNonce |-> "https://ca/new-nonce", NewAccount |-> "https://ca/new-acct",
           NewOrder |-> "https://ca/new-order", NewAuthz |-> "https://ca/new-authz",
           RevokeCert |-> "https://ca/revoke-cert", Meta |-> "A"]
DirB   == [DirA EXCEPT !.Meta = "B"]
DirBad == [DirA EXCEPT !.NewOrder = ""]
DirHTTP == [DirA EXCEPT !.NewNonce = HTTPDir]
EmptyDir == [NoDir EXCEPT !.Meta = ""]
DirNoRevoke == [DirA EXCEPT !.RevokeCert = ""]

\* json.Decode of a body into a *directoryInfo that is nil: a JSON object
\* without the directory's keys leaves every field empty, and the JSON value
\* null leaves the pointer nil (NoDir).
JSONValid(body) == body # "garbage"
DirectoryOf(body) ==
  CASE body = "dirA"    -> DirA
    [] body = "dirB"    -> DirB
    [] body = "dirBad"  -> DirBad
    [] body = "dirHTTP" -> DirHTTP
    [] body = "null"    -> NoDir
    [] body = "dirNoRevoke" -> DirNoRevoke
    [] OTHER            -> EmptyDir

\* The "type" member of a JSON body ("" when it has none).
ProblemType(body) ==
  CASE body = "badNonce"  -> BadNonceType
    [] body = "malformed" -> "urn:ietf:params:acme:error:malformed"
    [] OTHER              -> ""

\* The Content-Type values of the model: a media type with or without a
\* charset parameter, and "" for a response without the header.
JSONLatin1 == "application/json; charset=latin1"
JSONUtf8   == "application/json; charset=utf-8"
JSONUTF8   == "application/json; charset=UTF-8"
ContentTypes ==
  {"", "application/json", JSONLatin1, JSONUtf8, JSONUTF8,
   "application/problem+json", "text/plain"}

\* mime.ParseMediaType on them: it fails on "" (no media type); charset is
\* params["charset"], "" when the parameter is absent.
ParseMediaType(ctype) ==
  CASE ctype = ""         -> [ok |-> FALSE, mimeType |-> "", charset |-> ""]
    [] ctype = JSONLatin1 -> [ok |-> TRUE, mimeType |-> "application/json", charset |-> "latin1"]
    [] ctype = JSONUtf8   -> [ok |-> TRUE, mimeType |-> "application/json", charset |-> "utf-8"]
    [] ctype = JSONUTF8   -> [ok |-> TRUE, mimeType |-> "application/json", charset |-> "UTF-8"]
    [] OTHER              -> [ok |-> TRUE, mimeType |-> ctype, charset |-> ""]

\* strings.ToLower on the charsets of the model.
ToLower(ch) == IF ch = "UTF-8" THEN "utf-8" ELSE ch

\* validateContentType (api-res.go:1367-1377): TRUE when it returns nil.
validateContentTypeAnyCharset(mimeType, charset, expectedMimeType) ==
  mimeType = expectedMimeType

validateContentType(mimeType, charset, expectedMimeType) ==
  /\ mimeType = expectedMimeType
  /\ ~(charset # "" /\ ToLower(charset) # "utf-8")

\* newHTTPError (part_000:44-61).
newHTTPError(res) ==
  LET mt == ParseMediaType(res.ctype) IN
  [kind |-> "HTTPError", status |-> res.status,
   ptype |-> IF mt.ok /\ validateContentType(mt.mimeType, mt.charset,
                                              "application/problem+json")
                /\ JSONValid(res.body)
             THEN ProblemType(res.body) ELSE "nil"]

\* The error of doReqServer after it has a response (api-res.go:1408-1414).
ServerErrorClientOnly(res) ==
  IF res.status >= 400 /\ res.status < 500 THEN newHTTPError(res) ELSE NoErr

ServerError(res) ==
  IF res.status >= 400 /\ res.status < 600 THEN newHTTPError(res) ELSE NoErr

\* The unmarshalling of doReqOneTry (api-res.go:1344-1361): its error.
Unmarshal(req, res) ==
  LET mt == ParseMediaType(res.ctype) IN
  IF ~req.responseData THEN NoErr
  ELSE IF ~mt.ok THEN Err("mime: no media type")
  ELSE IF ~validateContentType(mt.mimeType, mt.charset, "application/json")
       THEN Err("unexpected response content type")
  ELSE IF ~JSONValid(res.body) THEN Err("json: invalid")
  ELSE NoErr

\* The nonce harvesting of doReqServer (api-res.go:1386-1389): the pool after it.
HarvestOnSuccessOnly(pl, res) ==
  IF res.nonce # NoToken /\ res.status < 400 THEN AddNonce(pl, res.nonce) ELSE pl

Harvest(pl, res) ==
  IF res.nonce # NoToken THEN AddNonce(pl, res.nonce) ELSE pl

\* The locked section of the auto-discovery (api-res.go:1394-1405): the
\* directory URL after it.
DiscoverNoRecheck(url, res) ==
  IF res.link # "" /\ ValidURL(res.link) THEN res.link ELSE url

Discover(url, res) ==
  IF url # "" THEN url
  ELSE IF res.link # "" /\ ValidURL(res.link) THEN res.link
  ELSE url

(***************************************************************************)
(* The retry decision of doReqAccept (api-res.go:1220-1245).               *)
(***************************************************************************)
MaxTries == 20

\* backoff.Sleep() with CurrentTry = tries: it sleeps and returns true until
\* MaxTries sleeps were made.
BackoffSleepOnceMore(tries) == tries <= MaxTries

BackoffSleep(tries) == tries < MaxTries

IsBadNonce(err) == err.kind = "HTTPError" /\ err.ptype = BadNonceType

NeverRetry(err, tries) == FALSE

RetryAnyHTTPError(err, tries) == err.kind = "HTTPError" /\ BackoffSleep(tries)

\* doReqAccept that retries after any error.
RetryAnyError(err, tries) == err # NoErr /\ BackoffSleep(tries)

ShouldRetry(err, tries) == IsBadNonce(err) /\ BackoffSleep(tries)

(***************************************************************************)
(* The server and the scenarios. The parts of a response are drawn when    *)
(* the code reads them: status and Replay-Nonce when the response arrives, *)
(* the index link in the auto-discovery, Content-Type and body when the    *)
(* response is turned into an error or decoded.                            *)
(*   "any":   one goroutine; the server answers anything, a badNonce       *)
(*            problem at most MaxBadNonce times.                           *)
(*   "stale": one goroutine; the server rejects the nonce of every signed  *)
(*            request.                                                     *)
(*   "race":  every goroutine of Procs; unsigned requests only, answered   *)
(*            by a directory or a failure.                                 *)
(*   "ops":   one goroutine calls the account and order operations; the    *)
(*            server answers unsigned requests with a directory and signed *)
(*            ones with a resource, created or not, or a failure.          *)
(*   "poll":  one goroutine loads and polls an order or an authorization   *)
(*            of that server, which reports the order as unfinished at     *)
(*            most MaxBusy times; time passes while the goroutine waits.   *)
(***************************************************************************)
Modes == {"any", "stale", "race", "ops", "poll"}
Resources == srv.mode \in {"ops", "poll"}
Active(p) == srv.mode \in {"race", "locks"} \/ p = 1

Answers ==
  {[status |-> 200, ctype |-> "application/json", body |-> "dirA"],
   [status |-> 200, ctype |-> "application/json", body |-> "dirB"],
   [status |-> 200, ctype |-> "application/json", body |-> "dirBad"],
   [status |-> 200, ctype |-> "application/json", body |-> "dirHTTP"],
   [status |-> 200, ctype |-> "application/json", body |-> "null"],
   [status |-> 200, ctype |-> "text/plain", body |-> "dirA"],
   [status |-> 200, ctype |-> JSONLatin1, body |-> "dirA"],
   [status |-> 200, ctype |-> JSONUtf8, body |-> "dirA"],
   [status |-> 200, ctype |-> JSONUTF8, body |-> "dirB"],
   [status |-> 200, ctype |-> "", body |-> "dirA"],
   [status |-> 399, ctype |-> "application/problem+json", body |-> "malformed"],
   [status |-> 600, ctype |-> "application/problem+json", body |-> "malformed"],
   [status |-> 599, ctype |-> "", body |-> "malformed"],
   [status |-> 200, ctype |-> "application/json", body |-> "garbage"],
   [status |-> 400, ctype |-> "application/problem+json", body |-> "badNonce"],
   [status |-> 400, ctype |-> "application/problem+json", body |-> "malformed"],
   [status |-> 400, ctype |-> "application/problem+json", body |-> "garbage"],
   [status |-> 500, ctype |-> "text/plain", body |-> "badNonce"]}

\* The answers to the signed requests of the operations.
OpsAnswers ==
  {[status |-> 201, ctype |-> "application/json", body |-> "{}"],
   [status |-> 200, ctype |-> "application/json", body |-> "{}"],
   [status |-> 202, ctype |-> "application/json", body |-> "{}"],
   [status |-> 201, ctype |-> "text/plain", body |-> "{}"],
   [status |-> 200, ctype |-> "application/json", body |-> "garbage"],
   [status |-> 400, ctype |-> "application/problem+json", body |-> "malformed"]}

BadNonceAnswer == [status |-> 400, ctype |-> "application/problem+json", body |-> "badNonce"]
DirAAnswer     == [status |-> 200, ctype |-> "application/json", body |-> "dirA"]

\* The answers to the GET of an order and of an authorization: an order still
\* in the works at most MaxBusy times.
OrderAnswers ==
  {[status |-> 200, ctype |-> "application/json", body |-> "{status:processing}"],
   [status |-> 200, ctype |-> "application/json", body |-> "{expires}"],
   [status |-> 200, ctype |-> "application/json", body |-> "{status:valid}"],
   [status |-> 200, ctype |-> "application/json", body |-> "garbage"],
   [status |-> 200, ctype |-> "text/plain", body |-> "{status:valid}"],
   [status |-> 404, ctype |-> "application/problem+json", body |-> "malformed"]}
AuthzAnswers ==
  {[status |-> 200, ctype |-> "application/json", body |-> "{status:pending,challenges:[c]}"],
   [status |-> 200, ctype |-> "application/json", body |-> "{status:valid}"],
   [status |-> 200, ctype |-> "application/json", body |-> "{challenges:[]}"],
   [status |-> 200, ctype |-> "application/json", body |-> "{status:valid,challenges:[c]}"],
   [status |-> 200, ctype |-> "application/json", body |-> "{status:revoked}"],
   [status |-> 201, ctype |-> "application/json", body |-> "{status:pending,challenges:[c]}"],
   [status |-> 201, ctype |-> "application/json", body |-> "{status:pending}"],
   [status |-> 201, ctype |-> "text/plain", body |-> "{status:pending,challenges:[c]}"],
   [status |-> 404, ctype |-> "application/problem+json", body |-> "malformed"]}
Unfinished(a) == a.body \in {"{status:processing}", "{expires}"}

\* The answers of the scenario to a request.
AnswersTo(req) ==
  LET signed == req.requestData IN
  CASE srv.mode = "stale" -> IF signed THEN {BadNonceAnswer} ELSE {DirAAnswer}
    [] srv.mode = "race"  -> {a \in Answers : a.body \in {"dirA", "dirB"}
                                              /\ a.ctype = "application/json"}
                             \cup {a \in Answers : a.status = 500}
    [] srv.mode = "locks" -> IF signed THEN {[DirAAnswer EXCEPT !.body = "{}"]}
                             ELSE {DirAAnswer} \cup {a \in Answers : a.status = 500}
    [] Resources          ->
         CASE req.url \in {AuthzURL, DirA.NewAuthz} -> AuthzAnswers
           [] signed           -> OpsAnswers
           [] req.url = ResURL -> {a \in OrderAnswers : Unfinished(a) => srv.busy > 0}
           [] OTHER            -> {DirAAnswer, [DirAAnswer EXCEPT !.body = "dirNoRevoke"]}
    [] OTHER              -> {a \in Answers : a = BadNonceAnswer => srv.bad > 0}

\* The response as doReqServer first sees it: a status and a Replay-Nonce.
Heads(req) ==
  {[NoRes EXCEPT !.status = st, !.nonce = n] :
     st \in {a.status : a \in AnswersTo(req)},
     n \in CASE srv.mode = "stale" -> Tokens
            [] srv.mode = "locks" -> {NoToken, 1}
            [] OTHER              -> {NoToken} \cup Tokens}

\* Its index link.
Links == CASE Resources          -> {""}
           [] srv.mode = "locks" -> {"", DirURL1}
           [] OTHER              -> {"", DirURL1, DirURL2, HTTPDir}

\* Its Location header.
NewURL    == "https://ca/new/1"
Locations == {"", HTTPDir, NewURL}

\* Its Content-Type and body.
Bodies(res, req) ==
  {[res EXCEPT !.ctype = a.ctype, !.body = a.body] :
     a \in {x \in AnswersTo(req) : x.status = res.status}}

SrvAfter(res) ==
  IF srv.mode = "any" /\ res.status = BadNonceAnswer.status
     /\ res.ctype = BadNonceAnswer.ctype /\ res.body = BadNonceAnswer.body
  THEN [srv EXCEPT !.bad = @ - 1]
  ELSE IF Resources /\ Unfinished(res) THEN [srv EXCEPT !.busy = @ - 1]
  ELSE srv

(***************************************************************************)
(* doReqAccept, doReqOneTry and doReqServer (api-res.go:1219-1415).        *)
(***************************************************************************)
DoReqFrame(req) ==
  [fn |-> "doReq", pc |-> "try", ret |-> NoRet, out |-> NoRet, req |-> req,
   res |-> NoRes, tok |-> NoToken, err |-> NoErr,
   alg |-> "-",    \* the algorithm of the signature of its last request
   hdr |-> NoHeader,  \* the protected header of its last request
   dest |-> NoDir, \* what responseData points to
   tries |-> 0,    \* backoff.CurrentTry
   att |-> 0,      \* doReqOneTry calls made
   sent |-> 0,     \* requests sent
   outs |-> <<>>,  \* how the first MaxLog attempts ended
   toks |-> {},    \* the tokens its requests carried, not handed out again since
   dup |-> FALSE]  \* a request carried a token of toks

Outcome(err) == IF err = NoErr THEN "ok" ELSE IF IsBadNonce(err) THEN "badNonce" ELSE "error"

\* The frame when doReqOneTry returns err: the loop of doReqAccept decides
\* next.
Tried(f, err) ==
  [f EXCEPT !.pc = "decide", !.err = err, !.ret = NoRet, !.tok = NoToken,
            !.res = [@ EXCEPT !.nonce = NoToken, !.link = ""],
            !.outs = IF Len(@) < MaxLog THEN Append(@, Outcome(err)) ELSE @]

\* doReqOneTry up to the signature: the checks, then Sign asks the nonce
\* source for a nonce if there is a payload.
DoReqTry(p) ==
  /\ At(p, "doReq", "try")
  /\ LET f == [Top(p) EXCEPT !.att = @ + 1]
         e == Validate(f.req) IN
     stack' = Moved(p,
       IF e # NoErr THEN SetTop(p, Tried(f, e))
       ELSE IF f.req.requestData
       THEN Call(p, [f EXCEPT !.pc = "signed", !.alg = algorithmFromKey(SigningKey(f.req)),
                              !.hdr = ProtectedHeader(f.req)],
                 NonceFrame)
       ELSE SetTop(p, [f EXCEPT !.pc = "send"]))
  /\ UNCHANGED <<pool, GetNonceFunc, now, clientVars, taken, twice>>

\* Sign failed for want of a nonce, or the signed request is ready.
DoReqSigned(p) ==
  /\ At(p, "doReq", "signed")
  /\ stack' = Moved(p, SetTop(p,
       IF Top(p).ret.err # NoErr THEN Tried(Top(p), Top(p).ret.err)
       ELSE [Top(p) EXCEPT !.pc = "send", !.tok = Top(p).ret.tok, !.ret = NoRet]))
  /\ UNCHANGED <<pool, GetNonceFunc, now, clientVars, taken, twice>>

\* A stack in which the calls of doReq have noted that the server handed
\* out token t (again).
Reissued(s, t) ==
  [i \in 1 .. Len(s) |->
     IF s[i].fn = "doReq" THEN [s[i] EXCEPT !.toks = @ \ {t}] ELSE s[i]]

\* doReqServer: the request is sent. Either ctxhttp.Do fails (the context is
\* cancelled, the connection fails), or a response arrives and its
\* Replay-Nonce is added to the pool.
DoReqSend(p) ==
  /\ At(p, "doReq", "send")
  /\ LET f == [Top(p) EXCEPT !.sent = @ + 1,
                             !.toks = IF Top(p).tok # NoToken THEN @ \cup {Top(p).tok} ELSE @,
                             !.dup = @ \/ Top(p).tok \in Top(p).toks] IN
     \/ /\ stack' = Moved(p, SetTop(p, Tried(f, Err("transport"))))
        /\ UNCHANGED <<pool, taken>>
     \/ \E res \in Heads(f.req) :
          /\ pool' = Harvest(pool, res)
          /\ taken' = taken \ (pool' \ pool)
          /\ stack' = [q \in Procs |->
               LET s == IF q = p THEN SetTop(p, [f EXCEPT !.pc = "discover", !.res = res])
                        ELSE Disturbed(stack[q]) IN
               IF res.nonce \in pool'
               THEN Reissued(IF q = p THEN NoteAdd(s, res.nonce) ELSE s, res.nonce)
               ELSE s]
  /\ UNCHANGED <<GetNonceFunc, now, clientVars, twice>>

\* What is left of doReqOneTry once doReqServer is through with the
\* response res: the status check, then the decoding.
Finish(f, res) ==
  LET e == ServerError(res)
      u == IF e # NoErr THEN e ELSE Unmarshal(f.req, res) IN
  Tried([f EXCEPT !.res = res,
                  !.dest = IF u = NoErr /\ f.req.responseData
                           THEN DirectoryOf(res.body) ELSE @], u)

\* if c.getDirectoryURL() == "" { ... }
DoReqDiscover(p) ==
  /\ At(p, "doReq", "discover")
  /\ IF directoryURL = ""
     THEN /\ \E l \in Links :
               stack' = Moved(p, SetTop(p, [Top(p) EXCEPT !.pc = "learn", !.res.link = l]))
          /\ srv' = srv
     ELSE \E res \in Bodies(Top(p).res, Top(p).req) :
            /\ stack' = Moved(p, SetTop(p, Finish(Top(p), res)))
            /\ srv' = SrvAfter(res)
  /\ UNCHANGED <<pool, GetNonceFunc, now, directoryURL, dir, dirMutex, taken, twice>>

\* The section under directoryURLMutex.
DoReqLearn(p) ==
  /\ At(p, "doReq", "learn")
  /\ directoryURL' = Discover(directoryURL, Top(p).res)
  /\ \E res \in Bodies(Top(p).res, Top(p).req) :
       /\ stack' = Moved(p, SetTop(p, Finish(Top(p), res)))
       /\ srv' = SrvAfter(res)
  /\ UNCHANGED <<pool, GetNonceFunc, now, dir, dirMutex, taken, twice>>

\* The loop of doReqAccept: return, or sleep and try again.
\* The response doReqAccept returns with its error: NoRes stands for nil,
\* and of a response the callers read the status and the Location and
\* Retry-After headers. Its body stands for what the call decoded into the
\* responseData of its caller, where that is an order or an authorization.
Returned(res, req) ==
  [NoRes EXCEPT !.status = res.status,
                !.body = IF req.url \in {ResURL, AuthzURL, DirA.NewAuthz} THEN res.body ELSE @]

DoReqDecide(p) ==
  /\ At(p, "doReq", "decide")
  /\ LET f == Top(p) IN
     stack' = Moved(p, SetTop(p,
       IF f.err = NoErr
       THEN [f EXCEPT !.pc = "ret", !.res = NoRes, !.toks = {}, !.dest = NoDir,
                      !.out = Ret(NoToken, f.dest, Returned(f.res, f.req), NoErr)]
       ELSE IF ShouldRetry(f.err, f.tries)
       THEN [f EXCEPT !.pc = "try", !.res = NoRes, !.tries = @ + 1]
       ELSE [f EXCEPT !.pc = "ret", !.res = NoRes, !.toks = {},
                      !.out = Ret(NoToken, NoDir, Returned(f.res, f.req), f.err)]))
  /\ UNCHANGED <<pool, GetNonceFunc, now, clientVars, taken, twice>>

(***************************************************************************)
(* getDirectory and getDirectoryActual (api-res.go:1104-1159).             *)
(***************************************************************************)
ErrUnknownDirectoryURL == Err("unable to retrieve directory because the directory URL is unknown")
ErrMissingEndpoints    == Err("directory does not provide required endpoints")

GetDirFrame ==
  [fn |-> "getDirectory", pc |-> "begin", ret |-> NoRet, out |-> NoRet,
   own |-> FALSE,     \* this call sent a directory request of its own
   got |-> "-",       \* the document its request fetched: "valid" or "invalid"
   waited |-> FALSE,  \* it was waiting for dirMutex when a fetch completed
   want |-> NoRet]    \* the outcome of that fetch

\* dir := c.getDirp(); if dir != nil { return dir, nil }
GetDirBegin(p) ==
  /\ At(p, "getDirectory", "begin")
  /\ stack' = Moved(p, SetTop(p,
       IF dir # NoDir THEN [Top(p) EXCEPT !.pc = "ret", !.out = Ret(NoToken, dir, NoRes, NoErr)]
       ELSE [Top(p) EXCEPT !.pc = "lock"]))
  /\ UNCHANGED <<pool, GetNonceFunc, now, clientVars, taken, twice>>

\* c.dirMutex.Lock()
GetDirLock(p) ==
  /\ At(p, "getDirectory", "lock")
  /\ dirMutex = NoProc
  /\ dirMutex' = p
  /\ stack' = Moved(p, SetTop(p, [Top(p) EXCEPT !.pc = "recheck"]))
  /\ UNCHANGED <<pool, GetNonceFunc, now, directoryURL, dir, srv, taken, twice>>

\* if dir := c.getDirp(); dir != nil { return dir, nil }
GetDirRecheck(p) ==
  /\ At(p, "getDirectory", "recheck")
  /\ stack' = Moved(p, SetTop(p,
       IF dir # NoDir THEN [Top(p) EXCEPT !.pc = "unlock", !.out = Ret(NoToken, dir, NoRes, NoErr)]
       ELSE [Top(p) EXCEPT !.pc = "actual"]))
  /\ UNCHANGED <<pool, GetNonceFunc, now, clientVars, taken, twice>>

\* The request of getDirectoryActual to the directory URL it read
\* (api-res.go:1149).
DirectoryReqConfigured(url) == Req("GET", DirURL1, NilAcct, "nil", FALSE, TRUE)

\* A directory request that is signed.
DirectoryReqSigned(url) == Req("GET", url, Acct(AcctURL, "P-256"), "nil", TRUE, TRUE)

DirectoryReq(url) == Req("GET", url, NilAcct, "nil", FALSE, TRUE)

\* getDirectoryActual: the directory URL is read and the request is made.
GetDirActual(p) ==
  /\ At(p, "getDirectory", "actual")
  /\ stack' = Moved(p,
       IF directoryURL = ""
       THEN SetTop(p, [Top(p) EXCEPT !.pc = "unlock", !.out = RetErr(ErrUnknownDirectoryURL)])
       ELSE Call(p, [Top(p) EXCEPT !.pc = "fetched", !.own = TRUE],
                 DoReqFrame(DirectoryReq(directoryURL))))
  /\ UNCHANGED <<pool, GetNonceFunc, now, clientVars, taken, twice>>

\* A panic of the goroutine: it unwinds the stack, running the deferred
\* calls, which the model renders as an error handed up to every caller.
ErrNilDeref == Err("panic: invalid memory address or nil pointer dereference")

\* The document has the three endpoints getDirectoryActual asks for.
EndpointsValid(d) == ValidURL(d.NewNonce) /\ ValidURL(d.NewAccount) /\ ValidURL(d.NewOrder)

\* getDirectoryActual that takes any directory document.
FetchedAnyDirectory(r) ==
  IF r.err # NoErr THEN RetErr(r.err)
  ELSE IF r.dir = NoDir THEN RetErr(ErrNilDeref)
  ELSE Ret(NoToken, r.dir, NoRes, NoErr)

\* The outcome of getDirectoryActual once doReq has returned r. dir is the
\* pointer the response was decoded into; dir.NewNonce dereferences it.
Fetched(r) ==
  IF r.err # NoErr THEN RetErr(r.err)
  ELSE IF r.dir = NoDir THEN RetErr(ErrNilDeref)
  ELSE IF ~ValidURL(r.dir.NewNonce) \/ ~ValidURL(r.dir.NewAccount) \/ ~ValidURL(r.dir.NewOrder)
       THEN RetErr(ErrMissingEndpoints)
  ELSE Ret(NoToken, r.dir, NoRes, NoErr)

\* The calls waiting for dirMutex learn how the fetch they wait for ended.
Waiting(s, o) ==
  [i \in 1 .. Len(s) |->
     IF s[i].fn = "getDirectory" /\ s[i].pc = "lock" /\ ~s[i].waited
     THEN [s[i] EXCEPT !.waited = TRUE, !.want = o] ELSE s[i]]

\* A getDirectory that keeps the document it decoded whatever
\* getDirectoryActual made of it.
GetDirFetchedKeeping(p) ==
  /\ At(p, "getDirectory", "fetched")
  /\ LET o == Fetched(Top(p).ret) IN
     /\ dir' = IF Top(p).ret.err = NoErr /\ Top(p).ret.dir # NoDir THEN Top(p).ret.dir ELSE dir
     /\ stack' = [q \in Procs |->
                    IF q = p
                    THEN SetTop(p, [Top(p) EXCEPT !.pc = "unlock", !.out = o, !.ret = NoRet,
                           !.got = IF Top(p).ret.err # NoErr THEN "-"
                                   ELSE IF EndpointsValid(Top(p).ret.dir) THEN "valid"
                                   ELSE "invalid"])
                    ELSE Waiting(Disturbed(stack[q]), o)]
  /\ UNCHANGED <<pool, GetNonceFunc, now, directoryURL, dirMutex, srv, taken, twice>>

\* The rest of getDirectoryActual, and c.setDirp(dir) if it succeeded.
GetDirFetched(p) ==
  /\ At(p, "getDirectory", "fetched")
  /\ LET o == Fetched(Top(p).ret) IN
     /\ dir' = IF o.err = NoErr THEN o.dir ELSE dir
     /\ stack' = [q \in Procs |->
                    IF q = p
                    THEN SetTop(p, [Top(p) EXCEPT !.pc = "unlock", !.out = o, !.ret = NoRet,
                           !.got = IF Top(p).ret.err # NoErr THEN "-"
                                   ELSE IF EndpointsValid(Top(p).ret.dir) THEN "valid"
                                   ELSE "invalid"])
                    ELSE Waiting(Disturbed(stack[q]), o)]
  /\ UNCHANGED <<pool, GetNonceFunc, now, directoryURL, dirMutex, srv, taken, twice>>

\* getDirectory that unlocks dirMutex only when it returns a directory.
GetDirUnlockOnSuccess(p) ==
  /\ At(p, "getDirectory", "unlock")
  /\ dirMutex' = IF Top(p).out.err = NoErr THEN NoProc ELSE dirMutex
  /\ stack' = Moved(p, SetTop(p, [Top(p) EXCEPT !.pc = "ret"]))
  /\ UNCHANGED <<pool, GetNonceFunc, now, directoryURL, dir, srv, taken, twice>>

\* defer c.dirMutex.Unlock()
GetDirUnlock(p) ==
  /\ At(p, "getDirectory", "unlock")
  /\ dirMutex' = NoProc
  /\ stack' = Moved(p, SetTop(p, [Top(p) EXCEPT !.pc = "ret"]))
  /\ UNCHANGED <<pool, GetNonceFunc, now, directoryURL, dir, srv, taken, twice>>

(***************************************************************************)
(* obtainNewNonce (api-res.go:1178-1192), the GetNonceFunc of a client.    *)
(***************************************************************************)
ObtainBegin(p) ==
  /\ At(p, "obtainNewNonce", "begin")
  /\ stack' = Moved(p, Call(p, [Top(p) EXCEPT !.pc = "gotdir"], GetDirFrame))
  /\ UNCHANGED <<pool, GetNonceFunc, now, clientVars, taken, twice>>

ObtainGotDir(p) ==
  /\ At(p, "obtainNewNonce", "gotdir")
  /\ stack' = Moved(p,
       IF Top(p).ret.err # NoErr
       THEN SetTop(p, [Top(p) EXCEPT !.pc = "ret", !.ret = NoRet, !.out = RetErr(Top(p).ret.err)])
       ELSE Call(p, [Top(p) EXCEPT !.pc = "headed", !.ret = NoRet],
                 DoReqFrame(Req("HEAD", Top(p).ret.dir.NewNonce, NilAcct, "nil", FALSE, FALSE))))
  /\ UNCHANGED <<pool, GetNonceFunc, now, clientVars, taken, twice>>

ObtainHeaded(p) ==
  /\ At(p, "obtainNewNonce", "headed")
  /\ stack' = Moved(p, SetTop(p, [Top(p) EXCEPT !.pc = "ret", !.ret = NoRet,
                                                !.out = RetErr(Top(p).ret.err)]))
  /\ UNCHANGED <<pool, GetNonceFunc, now, clientVars, taken, twice>>

(***************************************************************************)
(* NewOrder (api-res.go:593-629). The frame holds the order the caller     *)
(* passed, its URL at the call, and the status and the Location header of  *)
(* the response doReq returned.                                            *)
(***************************************************************************)
NewOrderFrame(acct, url) ==
  [fn |-> "NewOrder", pc |-> "begin", ret |-> NoRet, out |-> NoRet,
   acct |-> acct, order |-> [URL |-> url], url0 |-> url,
   status |-> NoStatus, loc |-> "", err |-> NoErr]

\* NewOrder that takes any status below 400 for a created order.
NewOrderResultAnySuccess(err, status, loc) ==
  IF err # NoErr THEN err
  ELSE IF ~ValidURL(loc) THEN Err("invalid URI")
  ELSE NoErr

\* What NewOrder returns once doReq has returned err and a response of that
\* status and Location (api-res.go:612-628).
NewOrderResult(err, status, loc) ==
  IF err # NoErr THEN err
  ELSE IF status # 201 THEN Err("expected status code 201")
  ELSE IF ~ValidURL(loc) THEN Err("invalid URI")
  ELSE NoErr

\* The Location header of the response a call returned: none without a
\* response.
LocationsOf(ret) == IF ret.res.status = NoStatus THEN {""} ELSE Locations

\* di, err := c.getDirectory(ctx)
NewOrderBegin(p) ==
  /\ At(p, "NewOrder", "begin")
  /\ stack' = Moved(p, Call(p, [Top(p) EXCEPT !.pc = "gotdir"], GetDirFrame))
  /\ UNCHANGED <<pool, GetNonceFunc, now, clientVars, taken, twice>>

\* res, err := c.doReq(ctx, "POST", di.NewOrder, acct, nil, po, order)
NewOrderGotDir(p) ==
  /\ At(p, "NewOrder", "gotdir")
  /\ stack' = Moved(p,
       IF Top(p).ret.err # NoErr
       THEN SetTop(p, [Top(p) EXCEPT !.pc = "ret", !.ret = NoRet, !.out = RetErr(Top(p).ret.err)])
       ELSE Call(p, [Top(p) EXCEPT !.pc = "posted", !.ret = NoRet],
                 DoReqFrame(Req("POST", Top(p).ret.dir.NewOrder, Top(p).acct, "nil", TRUE, TRUE))))
  /\ UNCHANGED <<pool, GetNonceFunc, now, clientVars, taken, twice>>

\* The checks of the response, and order.URL = loc.
NewOrderPosted(p) ==
  /\ At(p, "NewOrder", "posted")
  /\ \E loc \in LocationsOf(Top(p).ret) :
       LET f == Top(p)
           e == NewOrderResult(f.ret.err, f.ret.res.status, loc) IN
       stack' = Moved(p, SetTop(p,
         [f EXCEPT !.pc = "ret", !.ret = NoRet, !.out = RetErr(e),
                   !.status = f.ret.res.status, !.loc = loc, !.err = f.ret.err,
                   !.order.URL = IF e = NoErr THEN loc ELSE @]))
  /\ UNCHANGED <<pool, GetNonceFunc, now, clientVars, taken, twice>>

(***************************************************************************)
(* RegisterAccount, LocateAccount, UpdateAccount and postAccount           *)
(* (api-res.go:395-498). The frame of an operation holds the account the   *)
(* caller passed, its URL at the call, and the status and the Location     *)
(* header of the response doReq returned.                                  *)
(***************************************************************************)
AccountOps == {"RegisterAccount", "LocateAccount", "UpdateAccount"}

\* The JSON of a postAccount (api-res.go:388-393): a field tagged omitempty
\* is absent when it is empty.
Absent    == "-"
NoPayload == [status |-> Absent, onlyReturnExisting |-> Absent]
OmitEmpty(v) == IF v = "" THEN Absent ELSE v
OmitFalse(b) == IF b THEN "true" ELSE Absent

\* postAccount that copies whatever status the account has.
PostAccountPayloadAnyStatus(acct, onlyReturnExisting) ==
  [status |-> OmitEmpty(acct.Status), onlyReturnExisting |-> OmitFalse(onlyReturnExisting)]

\* The payload postAccount builds (api-res.go:396-403).
PostAccountPayload(acct, onlyReturnExisting) ==
  [status |-> OmitEmpty(IF acct.Status = "deactivated" THEN acct.Status ELSE ""),
   onlyReturnExisting |-> OmitFalse(onlyReturnExisting)]

AccountFrame(fn, acct) ==
  [fn |-> fn, pc |-> "begin", ret |-> NoRet, out |-> NoRet,
   acct |-> acct, url0 |-> acct.URL,
   onlyReturnExisting |-> (fn = "LocateAccount"),
   postAcct |-> NoPayload,  \* the payload of its request, as marshalled
   updating |-> TRUE, status |-> NoStatus, loc |-> "",
   err |-> NoErr]           \* the error its doReq returned

AtAccountOp(p, pc) == ~Idle(p) /\ Top(p).fn \in AccountOps /\ Top(p).pc = pc

newAccountCodes    == {201, 200}
updateAccountCodes == {200}
isStatusCode(status, codes) == status \in codes

\* UpdateAccount without its check of acct.URL.
UpdateGuardNone(acct) == NoErr

\* registerAccount (api-res.go:453-459) and UpdateAccount (477-483) up to
\* the call of postAccount: the error they return, NoErr when they go on.
RegisterGuard(acct) ==
  IF acct.URL # "" THEN Err("cannot register account which already has an URL") ELSE NoErr
UpdateGuard(acct) ==
  IF acct.URL = "" THEN Err("cannot update account for which URL is unknown") ELSE NoErr

\* postAccount that does not look at the Location header of an update.
PostAccountResultAnyLocation(err, status, loc, updating) ==
  IF status = NoStatus THEN err
  ELSE IF ~isStatusCode(status, IF updating THEN updateAccountCodes ELSE newAccountCodes)
       THEN IF err # NoErr THEN err ELSE Err("unexpected status code")
  ELSE IF ~updating /\ ~ValidURL(loc) THEN Err("invalid URL")
  ELSE NoErr

\* What postAccount returns once doReq has returned err and a response of
\* that status and Location, NoStatus for none (api-res.go:426-450).
PostAccountResult(err, status, loc, updating) ==
  IF status = NoStatus THEN err
  ELSE IF ~isStatusCode(status, IF updating THEN updateAccountCodes ELSE newAccountCodes)
       THEN IF err # NoErr THEN err ELSE Err("unexpected status code")
  ELSE IF ~updating
       THEN IF ~ValidURL(loc) THEN Err("invalid URL") ELSE NoErr
  ELSE IF loc # "" THEN Err("unexpected Location header")
  ELSE NoErr

RegisterAccountBegin(p) ==
  /\ ~Idle(p) /\ Top(p).fn \in {"RegisterAccount", "LocateAccount"} /\ Top(p).pc = "begin"
  /\ LET e == RegisterGuard(Top(p).acct) IN
     stack' = Moved(p, SetTop(p,
       IF e # NoErr THEN [Top(p) EXCEPT !.pc = "ret", !.out = RetErr(e)]
       ELSE [Top(p) EXCEPT !.pc = "post"]))
  /\ UNCHANGED <<pool, GetNonceFunc, now, clientVars, taken, twice>>

UpdateAccountBegin(p) ==
  /\ At(p, "UpdateAccount", "begin")
  /\ LET e == UpdateGuard(Top(p).acct) IN
     stack' = Moved(p, SetTop(p,
       IF e # NoErr THEN [Top(p) EXCEPT !.pc = "ret", !.out = RetErr(e)]
       ELSE [Top(p) EXCEPT !.pc = "post"]))
  /\ UNCHANGED <<pool, GetNonceFunc, now, clientVars, taken, twice>>

\* postAccount up to its request: to acct.URL with the account's key id, or,
\* when the URL is empty, to the newAccount endpoint of the directory.
PostAccountBegin(p) ==
  /\ AtAccountOp(p, "post")
  /\ LET f == [Top(p) EXCEPT !.postAcct =
                          PostAccountPayload(Top(p).acct, Top(p).onlyReturnExisting)] IN
     stack' = Moved(p,
       IF f.acct.URL = ""
       THEN Call(p, [f EXCEPT !.pc = "gotdir", !.updating = FALSE], GetDirFrame)
       ELSE Call(p, [f EXCEPT !.pc = "posted"],
                 DoReqFrame(Req("POST", f.acct.URL, f.acct, f.acct.PrivateKey, TRUE, TRUE))))
  /\ UNCHANGED <<pool, GetNonceFunc, now, clientVars, taken, twice>>

PostAccountGotDir(p) ==
  /\ AtAccountOp(p, "gotdir")
  /\ LET f == Top(p) IN
     stack' = Moved(p,
       IF f.ret.err # NoErr
       THEN SetTop(p, [f EXCEPT !.pc = "ret", !.ret = NoRet, !.out = RetErr(f.ret.err)])
       ELSE Call(p, [f EXCEPT !.pc = "posted", !.ret = NoRet],
                 DoReqFrame(Req("POST", f.ret.dir.NewAccount, noAccountNeeded,
                                f.acct.PrivateKey, TRUE, TRUE))))
  /\ UNCHANGED <<pool, GetNonceFunc, now, clientVars, taken, twice>>

\* The checks of the response, and acct.URL = loc.
PostAccountPosted(p) ==
  /\ AtAccountOp(p, "posted")
  /\ \E loc \in LocationsOf(Top(p).ret) :
       LET f == Top(p)
           e == PostAccountResult(f.ret.err, f.ret.res.status, loc, f.updating) IN
       stack' = Moved(p, SetTop(p,
         [f EXCEPT !.pc = "ret", !.ret = NoRet, !.out = RetErr(e),
                   !.status = f.ret.res.status, !.loc = loc, !.err = f.ret.err,
                   !.acct.URL = IF e = NoErr /\ ~f.updating THEN loc ELSE @]))
  /\ UNCHANGED <<pool, GetNonceFunc, now, clientVars, taken, twice>>

(***************************************************************************)
(* The status types (part_001:141-190, 248-303, 341-396, 432-483). A       *)
(* status is a string; the four types differ in their tables only, so the  *)
(* methods take the type as kind.                                          *)
(***************************************************************************)
StatusKinds == {"Account", "Order", "Authorization", "Challenge"}

\* The constants declared for each type.
StatusValues(kind) ==
  CASE kind = "Account"       -> {"valid", "deactivated", "revoked"}
    [] kind = "Order"         -> {"pending", "ready", "processing", "valid", "invalid"}
    [] kind = "Authorization" -> {"pending", "valid", "invalid", "deactivated", "revoked"}
    [] kind = "Challenge"     -> {"pending", "processing", "valid", "invalid"}

\* The strings a status is decoded from or holds: the declared ones, the
\* empty string, and strings no type declares.
StatusStrings ==
  UNION {StatusValues(k) : k \in StatusKinds} \cup {"", "f9S0", "Valid", "expired"}

\* IsWellFormed: the switch of each type.
IsWellFormedAny(kind, s) == s # ""

IsWellFormed(kind, s) ==
  CASE kind = "Account"       -> s \in {"valid", "deactivated", "revoked"}
    [] kind = "Order"         -> s \in {"pending", "ready", "processing", "valid", "invalid"}
    [] kind = "Authorization" -> s \in {"pending", "valid", "invalid", "deactivated", "revoked"}
    [] kind = "Challenge"     -> s \in {"pending", "processing", "valid", "invalid"}

\* IsFinal: the switch of each type.
IsFinalOnlyInvalid(kind, s) == s \in {"invalid", "deactivated", "revoked"}

IsFinal(kind, s) ==
  CASE kind = "Account"       -> s \in {"deactivated", "revoked"}
    [] kind = "Order"         -> s \in {"valid", "invalid"}
    [] kind = "Authorization" -> s \in {"valid", "invalid", "deactivated", "revoked"}
    [] kind = "Challenge"     -> s \in {"valid", "invalid"}

\* JSON texts: a string, the value null, and a value of another type.
JSONString(str) == [type |-> "string", str |-> str]
JSONNull        == [type |-> "null", str |-> ""]
JSONNumber      == [type |-> "number", str |-> ""]
JSONTexts       == {JSONString(x) : x \in StatusStrings} \cup {JSONNull, JSONNumber}

\* json.Unmarshal(data, &ss) with ss an empty string: null leaves ss as it is.
UnmarshalString(data) ==
  IF data.type = "number"
  THEN [ss |-> "", err |-> Err("json: cannot unmarshal number into Go value of type string")]
  ELSE [ss |-> data.str, err |-> NoErr]

\* UnmarshalJSON on a status of the kind that holds s: the status after the
\* call and the error.
UnmarshalJSON(kind, s, data) ==
  LET u == UnmarshalString(data) IN
  IF u.err # NoErr THEN [s |-> s, err |-> u.err]
  ELSE IF ~IsWellFormed(kind, u.ss) THEN [s |-> s, err |-> Err("not a valid status")]
  ELSE [s |-> u.ss, err |-> NoErr]

\* A goroutine decodes a JSON text into a status variable that is zero or
\* holds a value decoded before.
CallUnmarshalJSON(p) ==
  /\ Idle(p)
  /\ \E kind \in StatusKinds, data \in JSONTexts :
       \E s \in StatusValues(kind) \cup {""} :
         stack' = Moved(p, <<[fn |-> "UnmarshalJSON", pc |-> "begin", ret |-> NoRet,
                              out |-> NoRet, kind |-> kind, data |-> data,
                              s |-> s,       \* the status variable
                              s0 |-> s]>>)   \* what it held at the call
  /\ UNCHANGED <<pool, GetNonceFunc, now, clientVars, taken, twice>>

StatusUnmarshalJSON(p) ==
  /\ At(p, "UnmarshalJSON", "begin")
  /\ LET r == UnmarshalJSON(Top(p).kind, Top(p).s, Top(p).data) IN
     stack' = Moved(p, SetTop(p, [Top(p) EXCEPT !.pc = "ret", !.s = r.s,
                                                !.out = RetErr(r.err)]))
  /\ UNCHANGED <<pool, GetNonceFunc, now, clientVars, taken, twice>>

\* A goroutine asks whether a status is final; is holds the answer.
CallIsFinal(p) ==
  /\ Idle(p)
  /\ \E kind \in StatusKinds, s \in StatusStrings :
       stack' = Moved(p, <<[fn |-> "IsFinal", pc |-> "begin", ret |-> NoRet,
                            out |-> NoRet, kind |-> kind, s |-> s, is |-> FALSE]>>)
  /\ UNCHANGED <<pool, GetNonceFunc, now, clientVars, taken, twice>>

StatusIsFinal(p) ==
  /\ At(p, "IsFinal", "begin")
  /\ stack' = Moved(p, SetTop(p, [Top(p) EXCEPT !.pc = "ret",
                                                !.is = IsFinal(Top(p).kind, Top(p).s)]))
  /\ UNCHANGED <<pool, GetNonceFunc, now, clientVars, taken, twice>>

InitTypes ==
  /\ pool = {}
  /\ GetNonceFunc = "nil"
  /\ directoryURL = ""
  /\ dir = NoDir
  /\ dirMutex = NoProc
  /\ srv = [mode |-> "none", bad |-> 0, busy |-> 0]
  /\ now = 0
  /\ stack = [p \in Procs |-> <<>>]
  /\ taken = {}
  /\ twice = FALSE

NextTypes ==
  \E p \in Procs :
    \/ CallUnmarshalJSON(p)
    \/ StatusUnmarshalJSON(p)
    \/ CallIsFinal(p)
    \/ StatusIsFinal(p)
    \/ ReturnStep(p)

SpecTypes == InitTypes /\ [][NextTypes]_vars

(***************************************************************************)
(* Orders and certificates as the client holds them, and the documents     *)
(* they are loaded from.                                                   *)
(***************************************************************************)
Order(url, status) == [URL |-> url, Status |-> status, retryAt |-> 0]
Certificate(url)   == [URL |-> url, CertificateChain |-> "nil"]

PEMChain == "application/pem-certificate-chain"

\* The status member of an order or authorization document.
StatusField(body) ==
  CASE body = "{status:processing}" -> JSONString("processing")
    [] body = "{status:pending}"    -> JSONString("pending")
    [] body = "{status:valid}"      -> JSONString("valid")
    [] body = "{status:f9S0}"       -> JSONString("f9S0")

\* json.NewDecoder(res.Body).Decode(order): the order after it and the error.
\* A member the document lacks leaves its field alone.
DecodeOrder(order, body) ==
  IF ~JSONValid(body) THEN [order |-> order, err |-> Err("json: invalid")]
  ELSE IF body \in {"{}", "{expires}"} THEN [order |-> order, err |-> NoErr]
  ELSE LET u == UnmarshalJSON("Order", order.Status, StatusField(body)) IN
       [order |-> [order EXCEPT !.Status = u.s], err |-> u.err]

\* acmeutils.LoadCertificates: the chain and the error.
LoadCertificates(b) ==
  IF b = "pem" THEN [chain |-> "chain", err |-> NoErr]
  ELSE [chain |-> "nil", err |-> Err("pem: no certificate")]

\* The Retry-After headers of the responses, and retryAtDefault: the time of
\* the next poll, t being the time of the call.
defaultPollTime == 10
RetryAfters     == {"", "5"}
retryAtDefault(ra, d, t) == t + (IF ra = "5" THEN 5 ELSE d)

(***************************************************************************)
(* LoadOrder, WaitLoadOrder, WaitForOrder (api-res.go:630-678),            *)
(* LoadAuthorization and WaitLoadAuthorization (504-543). The frame of an  *)
(* operation holds the object the caller passed and what it was at the     *)
(* call; WaitLoad enters at the wait, Load at the request.                 *)
(***************************************************************************)
Authorization(url, status, n) ==
  [URL |-> url, Status |-> status, retryAt |-> 0, Challenges |-> n]

\* json.NewDecoder(res.Body).Decode(az): the authorization after it.
DecodeAuthorizationFresh(az, body) ==
  CASE body = "{status:pending,challenges:[c]}" -> [az EXCEPT !.Status = "pending", !.Challenges = 1]
    [] body = "{status:valid,challenges:[c]}"   -> [az EXCEPT !.Status = "valid", !.Challenges = 1]
    [] body = "{status:pending}" -> [az EXCEPT !.Status = "pending"]
    [] body = "{status:valid}"   -> [az EXCEPT !.Status = "valid"]
    [] body = "{status:revoked}" -> [az EXCEPT !.Status = "revoked"]
    [] body = "{challenges:[]}"  -> [az EXCEPT !.Challenges = 0]
    [] OTHER                     -> az

\* A decoding that leaves a final status alone.
DecodeAuthorizationKeepsFinal(az, body) ==
  IF IsFinal("Authorization", az.Status) THEN [az EXCEPT !.Challenges = DecodeAuthorizationFresh(az, body).Challenges]
  ELSE DecodeAuthorizationFresh(az, body)

DecodeAuthorization(az, body) == DecodeAuthorizationFresh(az, body)

\* validate that passes an authorization without challenges.
validateAccepts(kind, obj) == NoErr

\* Authorization.validate (api-res.go:537-543) and Order.validate (851-853).
validate(kind, obj) ==
  IF kind = "Authorization" /\ obj.Challenges = 0 THEN Err("no challenges offered") ELSE NoErr

LoadOps == {"LoadOrder", "LoadAuthorization"}
WaitOps == {"WaitLoadOrder", "WaitLoadAuthorization", "WaitForOrder"}
PollOps == LoadOps \cup WaitOps
KindOf(fn) == IF fn \in {"LoadAuthorization", "WaitLoadAuthorization"}
              THEN "Authorization" ELSE "Order"

PollFrame(fn, acct, obj) ==
  [fn |-> fn, ret |-> NoRet, out |-> NoRet, acct |-> acct, obj |-> obj, obj0 |-> obj,
   pc |-> CASE fn = "WaitForOrder" -> "check" [] fn \in LoadOps -> "load" [] OTHER -> "wait",
   loads |-> 0,  \* the requests it has issued, as far as two
   ra |-> "",    \* the Retry-After header of the response it loaded last
   err |-> NoErr]  \* the error its doReq returned

AtPollOp(p, pc) == ~Idle(p) /\ Top(p).fn \in PollOps /\ Top(p).pc = pc

\* WaitForOrder that polls whatever the status of the order.
WaitForOrderCheckAlwaysPolls(p) ==
  /\ At(p, "WaitForOrder", "check")
  /\ stack' = Moved(p, SetTop(p,
       IF Top(p).loads > 0 /\ Top(p).obj.Status # "" /\ Top(p).obj.Status # "processing"
       THEN [Top(p) EXCEPT !.pc = "ret", !.out = RetErr(NoErr)]
       ELSE [Top(p) EXCEPT !.pc = "wait"]))
  /\ UNCHANGED <<pool, GetNonceFunc, now, clientVars, taken, twice>>

\* if order.Status != "" && order.Status != OrderProcessing { return nil }
WaitForOrderCheck(p) ==
  /\ At(p, "WaitForOrder", "check")
  /\ stack' = Moved(p, SetTop(p,
       IF Top(p).obj.Status # "" /\ Top(p).obj.Status # "processing"
       THEN [Top(p) EXCEPT !.pc = "ret", !.out = RetErr(NoErr)]
       ELSE [Top(p) EXCEPT !.pc = "wait"]))
  /\ UNCHANGED <<pool, GetNonceFunc, now, clientVars, taken, twice>>

\* waitUntil(ctx, retryAt) returns nil once the time has come.
waitUntilDone(retryAt, t) == t >= retryAt

WaitUntilPassed(p) ==
  /\ AtPollOp(p, "wait")
  /\ waitUntilDone(Top(p).obj.retryAt, now)
  /\ stack' = Moved(p, SetTop(p, [Top(p) EXCEPT !.pc = "load"]))
  /\ UNCHANGED <<pool, GetNonceFunc, now, clientVars, taken, twice>>

\* waitUntil returns the error of the context, cancelled before the time has
\* come.
ErrCanceled == Err("context canceled")

\* WaitLoadOrder that forgets the time of the next poll when it is cancelled.
WaitUntilCancelledForgetting(p) ==
  /\ AtPollOp(p, "wait")
  /\ ~waitUntilDone(Top(p).obj.retryAt, now)
  /\ stack' = Moved(p, SetTop(p, [Top(p) EXCEPT !.pc = "ret", !.out = RetErr(ErrCanceled),
                                                !.obj.retryAt = 0]))
  /\ UNCHANGED <<pool, GetNonceFunc, now, clientVars, taken, twice>>

WaitUntilCancelled(p) ==
  /\ AtPollOp(p, "wait")
  /\ ~waitUntilDone(Top(p).obj.retryAt, now)
  /\ stack' = Moved(p, SetTop(p, [Top(p) EXCEPT !.pc = "ret", !.out = RetErr(ErrCanceled)]))
  /\ UNCHANGED <<pool, GetNonceFunc, now, clientVars, taken, twice>>

\* Time passes while a goroutine sleeps in waitUntil.
MaxClock == (MaxBusy + 1) * defaultPollTime + 2

Tick(p) ==
  /\ AtPollOp(p, "wait")
  /\ ~waitUntilDone(Top(p).obj.retryAt, now)
  /\ now < MaxClock
  /\ now' = now + 1
  /\ UNCHANGED <<pool, GetNonceFunc, clientVars, stack, taken, twice>>

\* res, err := c.doReq(ctx, "GET", order.URL, nil, nil, nil, order)
PollLoad(p) ==
  /\ AtPollOp(p, "load")
  /\ LET f == Top(p) IN
     stack' = Moved(p, Call(p, [f EXCEPT !.pc = "loaded", !.loads = Min(@ + 1, 2)],
                            DoReqFrame(Req("GET", f.obj.URL, f.acct, "nil", FALSE, TRUE))))
  /\ UNCHANGED <<pool, GetNonceFunc, now, clientVars, taken, twice>>

\* LoadOrder that records no time for the next poll.
LoadedKeepsRetryAt(kind, obj, ret, ra, t) ==
  IF ret.err # NoErr THEN [obj |-> obj, err |-> ret.err]
  ELSE LET o == IF kind = "Order" THEN DecodeOrder(obj, ret.res.body).order
                ELSE DecodeAuthorization(obj, ret.res.body) IN
       [obj |-> o, err |-> validate(kind, o)]

\* A load that records the time of the next poll before it validates.
LoadedStampsFirst(kind, obj, ret, ra, t) ==
  IF ret.err # NoErr THEN [obj |-> obj, err |-> ret.err]
  ELSE LET o == IF kind = "Order" THEN DecodeOrder(obj, ret.res.body).order
                ELSE DecodeAuthorization(obj, ret.res.body) IN
       [obj |-> [o EXCEPT !.retryAt = retryAtDefault(ra, defaultPollTime, t)],
        err |-> validate(kind, o)]

\* LoadOrder and LoadAuthorization once doReq has returned ret, at time t,
\* with the Retry-After header ra: the object after it, decoded by doReq,
\* and the error.
Loaded(kind, obj, ret, ra, t) ==
  IF ret.err # NoErr THEN [obj |-> obj, err |-> ret.err]
  ELSE LET o == IF kind = "Order" THEN DecodeOrder(obj, ret.res.body).order
                ELSE DecodeAuthorization(obj, ret.res.body)
           e == validate(kind, o) IN
       IF e # NoErr THEN [obj |-> o, err |-> e]
       ELSE [obj |-> [o EXCEPT !.retryAt = retryAtDefault(ra, defaultPollTime, t)],
             err |-> NoErr]

PollLoaded(p) ==
  /\ AtPollOp(p, "loaded")
  /\ \E ra \in RetryAfters :
       LET f == Top(p)
           r == Loaded(KindOf(f.fn), f.obj, f.ret, ra, now) IN
       stack' = Moved(p, SetTop(p,
         IF f.fn = "WaitForOrder" /\ r.err = NoErr
         THEN [f EXCEPT !.pc = "check", !.ret = NoRet, !.obj = r.obj, !.ra = ra]
         ELSE [f EXCEPT !.pc = "ret", !.ret = NoRet, !.obj = r.obj, !.ra = ra,
                        !.err = f.ret.err, !.out = RetErr(r.err)]))
  /\ UNCHANGED <<pool, GetNonceFunc, now, clientVars, taken, twice>>

(***************************************************************************)
(* NewAuthorization (api-res.go:551-583), Finalize (797-807), Revoke       *)
(* (827-849) and RespondToChallenge (857-864): a signed POST, to an        *)
(* endpoint of the directory or to the URL of the object. The frame holds  *)
(* the account and the revocation key the caller passed, the URL posted    *)
(* to and the authorization made.                                          *)
(***************************************************************************)
DirPostOps == {"NewAuthorization", "Revoke"}
PostOps    == DirPostOps \cup {"Finalize", "RespondToChallenge"}

PostFrame(fn, acct, key, url) ==
  [fn |-> fn, pc |-> "begin", ret |-> NoRet, out |-> NoRet,
   acct |-> acct, revocationKey |-> key, url |-> url, di |-> NoDir,
   az |-> Authorization("", "", 0), err |-> NoErr]

AtPostOp(p, pc) == ~Idle(p) /\ Top(p).fn \in PostOps /\ Top(p).pc = pc

\* The arguments of the doReq of the operation.
PostOpReq(f, url) ==
  CASE f.fn = "Revoke"           -> Req("POST", url, NilAcct, f.revocationKey, TRUE, FALSE)
    [] f.fn = "NewAuthorization" -> Req("POST", url, f.acct, "nil", TRUE, TRUE)
    [] OTHER                     -> Req("POST", url, f.acct, "nil", TRUE, TRUE)

\* di, err := c.getDirectory(ctx), or the doReq at once.
PostOpBegin(p) ==
  /\ AtPostOp(p, "begin")
  /\ LET f == Top(p) IN
     stack' = Moved(p,
       IF f.fn \in DirPostOps THEN Call(p, [f EXCEPT !.pc = "gotdir"], GetDirFrame)
       ELSE Call(p, [f EXCEPT !.pc = "posted"], DoReqFrame(PostOpReq(f, f.url))))
  /\ UNCHANGED <<pool, GetNonceFunc, now, clientVars, taken, twice>>

\* if di.RevokeCert == "" { return error }; res, err := c.doReq(...)
PostOpGotDir(p) ==
  /\ AtPostOp(p, "gotdir")
  /\ LET f == Top(p)
         url == IF f.fn = "Revoke" THEN f.ret.dir.RevokeCert ELSE f.ret.dir.NewAuthz IN
     stack' = Moved(p,
       IF f.ret.err # NoErr
       THEN SetTop(p, [f EXCEPT !.pc = "ret", !.ret = NoRet, !.out = RetErr(f.ret.err)])
       ELSE IF f.fn = "Revoke" /\ url = ""
       THEN SetTop(p, [f EXCEPT !.pc = "ret", !.ret = NoRet, !.di = f.ret.dir,
                                !.out = RetErr(Err("endpoint does not support revocation"))])
       ELSE Call(p, [f EXCEPT !.pc = "posted", !.ret = NoRet, !.di = f.ret.dir, !.url = url],
                 DoReqFrame(PostOpReq(f, url))))
  /\ UNCHANGED <<pool, GetNonceFunc, now, clientVars, taken, twice>>

\* What the operation returns once doReq has returned ret, the response
\* having that Location header: the authorization after it, and the error.
PostOpResult(fn, az, ret, loc) ==
  IF ret.err # NoErr THEN [az |-> az, err |-> ret.err]
  ELSE IF fn # "NewAuthorization" THEN [az |-> az, err |-> NoErr]
  ELSE LET a == DecodeAuthorization(az, ret.res.body) IN
       IF ret.res.status # 201 THEN [az |-> a, err |-> Err("expected status code 201")]
       ELSE IF ~ValidURL(loc) THEN [az |-> a, err |-> Err("expected valid location")]
       ELSE [az |-> [a EXCEPT !.URL = loc],
             err |-> validate("Authorization", [a EXCEPT !.URL = loc])]

PostOpPosted(p) ==
  /\ AtPostOp(p, "posted")
  /\ \E loc \in LocationsOf(Top(p).ret) :
       LET f == Top(p)
           r == PostOpResult(f.fn, f.az, f.ret, loc) IN
       stack' = Moved(p, SetTop(p,
         [f EXCEPT !.pc = "ret", !.ret = NoRet, !.az = r.az, !.err = f.ret.err,
                   !.out = RetErr(r.err)]))
  /\ UNCHANGED <<pool, GetNonceFunc, now, clientVars, taken, twice>>

(***************************************************************************)
(* LoadOrderOrCertificate (api-res.go:723-789).                            *)
(***************************************************************************)
LoadOrCertFrame(url, order, cert) ==
  [fn |-> "LoadOrderOrCertificate", pc |-> "begin", ret |-> NoRet, out |-> NoRet,
   url |-> url, order |-> order, order0 |-> order, cert |-> cert, cert0 |-> cert,
   isCertificate |-> FALSE, res |-> NoRes]

\* The answers to its request.
CertAnswers ==
  {[status |-> 200, ctype |-> "application/json", body |-> "{status:valid}"],
   [status |-> 200, ctype |-> "application/json", body |-> "garbage"],
   [status |-> 200, ctype |-> JSONLatin1, body |-> "{status:valid}"],
   [status |-> 200, ctype |-> PEMChain, body |-> "pem"],
   [status |-> 200, ctype |-> PEMChain, body |-> "garbage"],
   [status |-> 200, ctype |-> "text/plain", body |-> "pem"],
   [status |-> 200, ctype |-> "", body |-> "pem"],
   [status |-> 404, ctype |-> PEMChain, body |-> "pem"],
   [status |-> 500, ctype |-> "application/json", body |-> "{status:valid}"]}

\* LoadOrderOrCertificate that takes anything but JSON for a certificate.
LoadOrCertResultNoSwitch(url, order, cert, res, ra, t) ==
  LET mt == ParseMediaType(res.ctype)
      d  == DecodeOrder([order EXCEPT !.URL = url], res.body)
      c  == LoadCertificates(res.body) IN
  IF ServerError(res) # NoErr
  THEN [isCertificate |-> FALSE, err |-> ServerError(res), order |-> order, cert |-> cert]
  ELSE IF ~mt.ok
  THEN [isCertificate |-> FALSE, err |-> Err("mime: no media type"), order |-> order, cert |-> cert]
  ELSE IF mt.mimeType = "application/json"
  THEN [isCertificate |-> FALSE, err |-> d.err, cert |-> cert,
        order |-> IF d.err # NoErr THEN d.order
                  ELSE [d.order EXCEPT !.retryAt = retryAtDefault(ra, defaultPollTime, t)]]
  ELSE [isCertificate |-> TRUE, err |-> c.err, order |-> order,
        cert |-> [URL |-> url, CertificateChain |-> c.chain]]

\* What LoadOrderOrCertificate makes of the response res, received at time
\* t with the Retry-After header ra (api-res.go:743-788): its two results,
\* and the order and the certificate after it.
LoadOrCertResult(url, order, cert, res, ra, t) ==
  LET mt == ParseMediaType(res.ctype)
      d  == DecodeOrder([order EXCEPT !.URL = url], res.body)
      c  == LoadCertificates(res.body) IN
  IF ServerError(res) # NoErr
  THEN [isCertificate |-> FALSE, err |-> ServerError(res), order |-> order, cert |-> cert]
  ELSE IF ~mt.ok
  THEN [isCertificate |-> FALSE, err |-> Err("mime: no media type"), order |-> order, cert |-> cert]
  ELSE IF ~validateContentType(mt.mimeType, mt.charset, mt.mimeType)
  THEN [isCertificate |-> FALSE, err |-> Err("content type charset is not UTF-8"),
        order |-> order, cert |-> cert]
  ELSE IF mt.mimeType = "application/json"
  THEN [isCertificate |-> FALSE, err |-> d.err, cert |-> cert,
        order |-> IF d.err # NoErr THEN d.order
                  ELSE [d.order EXCEPT !.retryAt = retryAtDefault(ra, defaultPollTime, t)]]
  ELSE IF mt.mimeType = PEMChain
  THEN [isCertificate |-> TRUE, err |-> c.err, order |-> order,
        cert |-> [URL |-> url, CertificateChain |-> c.chain]]
  ELSE [isCertificate |-> FALSE, err |-> Err("response was not an order or certificate"),
        order |-> order, cert |-> cert]

\* The check of the URL, then doReqServer: the request fails in transport, or
\* a response arrives and its Replay-Nonce is added to the pool.
LoadOrCertBegin(p) ==
  /\ At(p, "LoadOrderOrCertificate", "begin")
  /\ LET f == Top(p) IN
     \/ /\ ~ValidURL(f.url)
        /\ stack' = Moved(p, SetTop(p, [f EXCEPT !.pc = "ret",
                                                 !.out = RetErr(Err("invalid request URL"))]))
        /\ pool' = pool
     \/ /\ ValidURL(f.url)
        /\ stack' = Moved(p, SetTop(p, [f EXCEPT !.pc = "ret", !.out = RetErr(Err("transport"))]))
        /\ pool' = pool
     \/ /\ ValidURL(f.url)
        /\ \E st \in {a.status : a \in CertAnswers}, n \in {NoToken} \cup Tokens :
             LET res == [NoRes EXCEPT !.status = st, !.nonce = n] IN
             /\ pool' = Harvest(pool, res)
             /\ stack' = Moved(p, SetTop(p, [f EXCEPT !.pc = "served", !.res = res]))
  /\ UNCHANGED <<GetNonceFunc, now, clientVars, taken, twice>>

\* The rest of doReqServer (the auto-discovery, the status check), then the
\* switch on the media type.
LoadOrCertServed(p) ==
  /\ At(p, "LoadOrderOrCertificate", "served")
  /\ \E l \in Links, ra \in RetryAfters, a \in {x \in CertAnswers : x.status = Top(p).res.status} :
       LET f   == Top(p)
           res == [f.res EXCEPT !.link = l, !.ctype = a.ctype, !.body = a.body]
           r   == LoadOrCertResult(f.url, f.order, f.cert, res, ra, now) IN
       /\ directoryURL' = Discover(directoryURL, res)
       /\ stack' = Moved(p, SetTop(p,
            [f EXCEPT !.pc = "ret", !.out = RetErr(r.err), !.isCertificate = r.isCertificate,
                      !.order = r.order, !.cert = r.cert,
                      !.res = [res EXCEPT !.nonce = NoToken, !.link = ""]]))
  /\ UNCHANGED <<pool, GetNonceFunc, now, dir, dirMutex, srv, taken, twice>>

(***************************************************************************)
(* The client and its users (NewRealmClient, api-res.go:1072-1084): every  *)
(* goroutine calls doReq, as the operations of the client do, or           *)
(* getDirectory, as GetMeta does.                                          *)
(***************************************************************************)
CallDoReq(p) ==
  /\ Idle(p)
  /\ Active(p)
  /\ \E req \in (CASE srv.mode = "stale" -> {PostKid}
                    [] srv.mode = "race"  -> {GetRes}
                    [] srv.mode = "locks" -> {PostKid, GetRes}
                    [] srv.mode = "ops"   -> {PostP384, PostP521, PostOverride}
                    [] srv.mode = "poll"  -> {}
                    [] OTHER              -> Requests) :
       stack' = Moved(p, <<DoReqFrame(req)>>)
  /\ UNCHANGED <<pool, GetNonceFunc, now, clientVars, taken, twice>>

CallGetDirectory(p) ==
  /\ Idle(p)
  /\ Active(p)
  /\ srv.mode \notin {"stale", "poll"}
  /\ stack' = Moved(p, <<GetDirFrame>>)
  /\ UNCHANGED <<pool, GetNonceFunc, now, clientVars, taken, twice>>

\* The accounts the operations are called with: one the server knows, with
\* its URL, and one yet to be registered.
KnownAcct == Acct(AcctURL, "P-256")
FreshAcct == Acct("", "rsa")

CallNewOrder(p) ==
  /\ Idle(p)
  /\ Active(p)
  /\ srv.mode = "ops"
  /\ \E acct \in {KnownAcct, FreshAcct}, url \in {"", ResURL} :
       stack' = Moved(p, <<NewOrderFrame(acct, url)>>)
  /\ UNCHANGED <<pool, GetNonceFunc, now, clientVars, taken, twice>>

CallLoadOrderOrCertificate(p) ==
  /\ Idle(p)
  /\ Active(p)
  /\ srv.mode = "ops"
  /\ \E url \in {ResURL, HTTPDir},
        order \in {Order("", ""), Order(NewURL, "processing")},
        cert \in {Certificate(""), Certificate(NewURL)} :
       stack' = Moved(p, <<LoadOrCertFrame(url, order, cert)>>)
  /\ UNCHANGED <<pool, GetNonceFunc, now, clientVars, taken, twice>>

\* The objects the polling operations are called with: one with only its
\* URL set, or none, and the ones an earlier load of it, at the time the
\* client was made, has left.
OKRet(body) == Ret(NoToken, NoDir, [NoRes EXCEPT !.status = 200, !.body = body], NoErr)
PollObjects(kind) ==
  LET fresh == IF kind = "Order" THEN Order(ResURL, "") ELSE Authorization(AuthzURL, "", 0)
      bodies == IF kind = "Order" THEN {"{status:processing}", "{status:valid}"}
                ELSE {"{status:pending,challenges:[c]}", "{status:valid,challenges:[c]}"} IN
  {fresh, [fresh EXCEPT !.URL = ""]}
    \cup {Loaded(kind, fresh, OKRet(b), ra, 0).obj : b \in bodies, ra \in RetryAfters}

CallPollOp(p) ==
  /\ Idle(p)
  /\ Active(p)
  /\ srv.mode = "poll"
  /\ now = 0
  /\ \E fn \in PollOps :
       \E obj \in PollObjects(KindOf(fn)) :
         stack' = Moved(p, <<PollFrame(fn, IF KindOf(fn) = "Order" THEN NilAcct ELSE KnownAcct,
                                       obj)>>)
  /\ UNCHANGED <<pool, GetNonceFunc, now, clientVars, taken, twice>>

CallPostOp(p) ==
  /\ Idle(p)
  /\ Active(p)
  /\ srv.mode = "ops"
  /\ \E fn \in PostOps, key \in {"nil", "rsa"} :
       /\ fn # "Revoke" => key = "nil"
       /\ stack' = Moved(p, <<PostFrame(fn, Acct(AcctURL, "P-256"), key,
                                        IF fn \in DirPostOps THEN "" ELSE ResURL)>>)
  /\ UNCHANGED <<pool, GetNonceFunc, now, clientVars, taken, twice>>

CallAccountOp(p) ==
  /\ Idle(p)
  /\ Active(p)
  /\ srv.mode = "ops"
  /\ \E fn \in AccountOps, acct \in {KnownAcct, FreshAcct}, st \in {"", "valid", "deactivated"} :
       stack' = Moved(p, <<AccountFrame(fn, [acct EXCEPT !.Status = st])>>)
  /\ UNCHANGED <<pool, GetNonceFunc, now, clientVars, taken, twice>>

Init ==
  /\ pool = {}
  /\ GetNonceFunc = "obtainNewNonce"
  /\ directoryURL \in {"", DirURL1}
  /\ dir = NoDir
  /\ dirMutex = NoProc
  /\ srv \in {[mode |-> m, bad |-> IF m = "any" THEN MaxBadNonce ELSE 0,
                busy |-> IF m = "poll" THEN MaxBusy ELSE 0] : m \in Modes}
  /\ srv.mode = "stale" => directoryURL = DirURL1
  /\ now = 0
  /\ stack = [p \in Procs |-> <<>>]
  /\ taken = {}
  /\ twice = FALSE

Next ==
  \E p \in Procs :
    \/ CallDoReq(p)
    \/ CallGetDirectory(p)
    \/ CallNewOrder(p)
    \/ NewOrderBegin(p)
    \/ NewOrderGotDir(p)
    \/ NewOrderPosted(p)
    \/ CallAccountOp(p)
    \/ CallLoadOrderOrCertificate(p)
    \/ CallPostOp(p)
    \/ PostOpBegin(p)
    \/ PostOpGotDir(p)
    \/ PostOpPosted(p)
    \/ CallPollOp(p)
    \/ WaitForOrderCheck(p)
    \/ WaitUntilPassed(p)
    \/ WaitUntilCancelled(p)
    \/ Tick(p)
    \/ PollLoad(p)
    \/ PollLoaded(p)
    \/ LoadOrCertBegin(p)
    \/ LoadOrCertServed(p)
    \/ RegisterAccountBegin(p)
    \/ UpdateAccountBegin(p)
    \/ PostAccountBegin(p)
    \/ PostAccountGotDir(p)
    \/ PostAccountPosted(p)
    \/ DoReqTry(p)
    \/ DoReqSigned(p)
    \/ DoReqSend(p)
    \/ DoReqDiscover(p)
    \/ DoReqLearn(p)
    \/ DoReqDecide(p)
    \/ NonceTryPop1(p)
    \/ NonceObtain(p)
    \/ NonceTryPop2(p)
    \/ ObtainBegin(p)
    \/ ObtainGotDir(p)
    \/ ObtainHeaded(p)
    \/ GetDirBegin(p)
    \/ GetDirLock(p)
    \/ GetDirRecheck(p)
    \/ GetDirActual(p)
    \/ GetDirFetched(p)
    \/ GetDirUnlock(p)
    \/ ReturnStep(p)

Spec == Init /\ [][Next]_vars

(***************************************************************************)
(* Properties.                                                             *)
(***************************************************************************)
\* Process p takes the step that leaves pc in function fn.
Steps(p, fn, pc) ==
  /\ At(p, fn, pc)
  /\ \/ Len(stack'[p]) # Len(stack[p])
     \/ stack'[p][Len(stack[p])].pc # pc

\* The top frame of p after the step.
TopAfter(p) == stack'[p][Len(stack'[p])]

\* The calls of fn in progress.
Calls(fn) ==
  UNION {{stack[p][i] : i \in {j \in 1 .. Len(stack[p]) : stack[p][j].fn = fn}} : p \in Procs}

\* The calls of doReq with a payload: their requests are signed.
SignedCalls == {f \in Calls("doReq") : f.req.requestData}

\* C1: retry on a stale token. When the first two attempts of a signed
\* request end in a badNonce problem and the third succeeds, doReq returns
\* success, it made exactly three attempts and sent exactly three requests,
\* and no request carried a token that an earlier request of the call carried
\* (unless the server handed that token out again in between). A call does
\* not return after a first or a second attempt that ended in badNonce.
C1_RetryOnStale ==
  \A f \in SignedCalls :
    /\ ~f.dup
    /\ f.pc \in {"decide", "ret"} /\ f.outs = <<"badNonce", "badNonce", "ok">> =>
         /\ f.err = NoErr /\ f.att = 3 /\ f.sent = 3
         /\ f.pc = "ret" => f.out.err = NoErr
    /\ f.pc = "ret" => f.outs \notin {<<"badNonce">>, <<"badNonce", "badNonce">>}

\* The third attempt of a signed request succeeded after two badNonce
\* answers, and the three requests carried three tokens.
C1_Witness ==
  \E f \in SignedCalls :
    /\ f.pc = "decide" /\ f.outs = <<"badNonce", "badNonce", "ok">>
    /\ Cardinality(f.toks) = 3

\* C2 as stated: an attempt is followed by another one if and only if its
\* error is an HTTPError with a badNonce problem; a call of doReq never
\* returns such an error, and every other error is returned by the attempt
\* that met it.
C2_Original ==
  \A f \in Calls("doReq") :
    /\ f.pc = "try" /\ f.tries > 0 => IsBadNonce(f.err)
    /\ f.pc = "ret" => f.out.err = f.err /\ ~IsBadNonce(f.err)

\* C2: an attempt is followed by another one if and only if its error is an
\* HTTPError with a badNonce problem and fewer than MaxTries attempts were
\* repeated before; every other error, and the badNonce error of the attempt
\* after MaxTries repetitions, is returned at once. The attempts made are
\* the repetitions plus one.
C2_RetryIffBadNonce ==
  \A f \in Calls("doReq") :
    /\ f.tries <= MaxTries
    /\ f.att = IF f.pc = "try" THEN f.tries ELSE f.tries + 1
    /\ f.pc = "try" /\ f.tries > 0 => IsBadNonce(f.err)
    /\ f.pc = "ret" => /\ f.out.err = f.err
                       /\ IsBadNonce(f.err) => f.tries = MaxTries

\* A call returns a badNonce error after MaxTries repetitions, and (in
\* another behaviour) a call returns another HTTPError from its only attempt.
C2_Witness ==
  \E f \in Calls("doReq") :
    /\ f.pc = "ret" /\ f.out.err.kind = "HTTPError"
    /\ \/ IsBadNonce(f.out.err) /\ f.att = MaxTries + 1
       \/ f.out.err.ptype = "urn:ietf:params:acme:error:malformed" /\ f.att = 1 /\ f.sent = 1

\* C3 as stated: a call of getDirectory that found no directory cached and
\* was waiting for dirMutex when the fetch of another call completed makes
\* no directory request of its own and returns the outcome of that fetch,
\* success or failure.
C3_SingleFlight ==
  \A f \in Calls("getDirectory") :
    f.waited => /\ ~f.own
                /\ f.pc \in {"unlock", "ret"} => f.out = f.want

\* C4: tokens are single-use. Under every interleaving of Nonce and AddNonce
\* calls, a Nonce call never returns a token that an earlier Nonce call
\* returned unless AddNonce was called with it in between, and a token that
\* was handed out is no longer in the pool.
C4_SingleUse == ~twice /\ taken \cap pool = {}

\* Two concurrent Nonce calls have both returned a token.
C4_Witness ==
  /\ At(1, "Nonce", "ret") /\ At(2, "Nonce", "ret")
  /\ Top(1).out.tok # NoToken /\ Top(2).out.tok # NoToken
  /\ Top(1).out.tok # Top(2).out.tok

\* C5: when the pool is not empty, Nonce returns at its first tryPop, with a
\* token that was in the pool and that no earlier call still holds; exactly
\* that token leaves the pool, and GetNonceFunc is not called.
C5_PopNonEmpty ==
  [][\A p \in Procs :
       Steps(p, "Nonce", "pop1") /\ pool # {} =>
         /\ Len(stack'[p]) = Len(stack[p])
         /\ TopAfter(p).pc = "ret"
         /\ TopAfter(p).out.err = NoErr
         /\ TopAfter(p).out.tok \in pool \ taken
         /\ pool' = pool \ {TopAfter(p).out.tok}
         /\ TopAfter(p).n = 0]_vars

\* A Nonce call returned a token without having found the pool empty.
C5_Witness ==
  \E p \in Procs :
    /\ At(p, "Nonce", "ret") /\ ~Top(p).empty0
    /\ Top(p).out.tok # NoToken /\ Top(p).n = 0

\* A Nonce call that ran alone, found the pool empty, and whose refill
\* callback made exactly one AddNonce call and returned nil.
RefilledByOne(p) ==
  /\ At(p, "Nonce", "ret") /\ Top(p).solo /\ Top(p).empty0
  /\ Top(p).n = 1 /\ Top(p).ret.err = NoErr /\ Top(p).cbN = 1

\* C6: with no concurrent callers, Nonce on an empty pool whose refill
\* callback adds exactly one token and returns nil returns that token and
\* leaves the pool empty; a Nonce call that starts on the empty pool finds it
\* empty and, if a callback is set, calls it (once more).
C6_RefillOne ==
  /\ [](\A p \in Procs :
          RefilledByOne(p) =>
            /\ Top(p).out = RetTok(Top(p).cbTok)
            /\ Top(p).emptyAfter /\ pool = {})
  /\ [][\A p \in Procs :
          /\ Steps(p, "Nonce", "pop1") /\ pool = {} =>
               TopAfter(p).pc = "obtain" /\ TopAfter(p).empty0 /\ pool' = {}
          /\ Steps(p, "Nonce", "obtain") /\ GetNonceFunc # "nil" =>
               /\ Len(stack'[p]) = Len(stack[p]) + 1
               /\ TopAfter(p).fn = GetNonceFunc
               /\ stack'[p][Len(stack[p])].n = Top(p).n + 1]_vars

C6_Witness == \E p \in Procs : RefilledByOne(p) /\ Top(p).out.tok # NoToken

\* The three cases of C7, for a Nonce call that has returned.
CallbackUnset(p)  == GetNonceFunc = "nil"
CallbackFailed(p) == Top(p).n >= 1 /\ Top(p).ret.err # NoErr
CallbackNoOp(p)   == Top(p).n >= 1 /\ Top(p).ret.err = NoErr /\ Top(p).cbN = 0

C8_AddIdempotent ==
  [][\A p \in Procs :
       /\ Steps(p, "AddNonce", "begin") =>
            /\ pool' = pool \cup {Top(p).nonce}
            /\ Top(p).nonce \in pool => pool' = pool
       /\ \A pc \in {"pop1", "pop2"} :
            Steps(p, "Nonce", pc) /\ TopAfter(p).pc = "ret"
            /\ TopAfter(p).out.tok # NoToken =>
              TopAfter(p).out.tok \in pool /\ TopAfter(p).out.tok \notin pool']_vars

\* AddNonce was called with a token that was in the pool, next to another.
C8_Witness ==
  \E p \in Procs :
    /\ At(p, "AddNonce", "ret") /\ Top(p).had
    /\ Top(p).nonce \in pool /\ Cardinality(pool) >= 2

C10_WriteOnce ==
  [][/\ directoryURL # "" => directoryURL' = directoryURL
     /\ directoryURL' # directoryURL =>
          \E p \in Procs : /\ Steps(p, "doReq", "learn")
                           /\ directoryURL' = Top(p).res.link
                           /\ ValidURL(Top(p).res.link)
     /\ \A p \in Procs :
          Steps(p, "doReq", "learn") /\ directoryURL = "" /\ ValidURL(Top(p).res.link)
            => directoryURL' = Top(p).res.link]_vars

\* Two responses with different valid index links met an empty directory URL;
\* the link of the one is stored, and the other is about to enter the locked
\* section.
C10_Witness ==
  \E p \in Procs :
    /\ At(p, "doReq", "learn")
    /\ ValidURL(Top(p).res.link)
    /\ directoryURL # "" /\ directoryURL # Top(p).res.link

\* C11: directory auto-discovery. A request without payload (the load of a
\* resource by its URL) never fails with ErrUnknownDirectoryURL. When
\* getDirectory comes to fetch the directory, it fails with
\* ErrUnknownDirectoryURL, sending nothing and caching nothing, if the
\* directory URL is empty at that moment; otherwise, whatever earlier calls
\* returned, it sends a GET without payload to the directory URL now known.
C11_AutoDiscovery ==
  /\ [](\A f \in Calls("doReq") :
          ~f.req.requestData => f.err # ErrUnknownDirectoryURL)
  /\ [][\A p \in Procs :
          Steps(p, "getDirectory", "actual") =>
            IF directoryURL = ""
            THEN /\ Len(stack'[p]) = Len(stack[p])
                 /\ TopAfter(p).pc = "unlock"
                 /\ TopAfter(p).out = RetErr(ErrUnknownDirectoryURL)
                 /\ ~TopAfter(p).own
                 /\ dir' = dir
            ELSE /\ Len(stack'[p]) = Len(stack[p]) + 1
                 /\ TopAfter(p).fn = "doReq" /\ TopAfter(p).pc = "try"
                 /\ TopAfter(p).req.method = "GET"
                 /\ TopAfter(p).req.url = directoryURL
                 /\ ~TopAfter(p).req.requestData]_vars

\* One call of getDirectory has failed with ErrUnknownDirectoryURL; since
\* then the directory URL was learned from an index link, and another call
\* has fetched the directory from it.
C11_Witness ==
  \E p, q \in Procs :
    /\ At(p, "getDirectory", "ret") /\ Top(p).out.err = ErrUnknownDirectoryURL
    /\ At(q, "getDirectory", "ret") /\ Top(q).out.err = NoErr /\ Top(q).own
    /\ Top(q).out.dir = dir /\ dir # NoDir
    /\ directoryURL = DirURL2

\* C12 as stated: a call of getDirectory that returns ErrUnknownDirectoryURL
\* has sent no request; a call whose request fetched a document in which
\* newNonce, newAccount or newOrder is not a valid https URL returns
\* ErrMissingEndpoints; and a call that fails has stored nothing in the cache
\* when it releases dirMutex.
C12_DirectoryErrors ==
  \A f \in Calls("getDirectory") :
    f.pc \in {"unlock", "ret"} =>
      /\ f.out.err = ErrUnknownDirectoryURL => ~f.own
      /\ f.got = "invalid" => f.out.err = ErrMissingEndpoints
      /\ f.pc = "unlock" /\ f.out.err # NoErr => dir = NoDir

\* C13: decoding a JSON string into a status of any of the four types
\* succeeds exactly when the string is one of the values declared for the
\* type, and the status is then that string; for every other string, the
\* empty one included, UnmarshalJSON returns an error and the status holds
\* what it held before.
C13_StatusDecode ==
  \A f \in Calls("UnmarshalJSON") :
    f.pc = "ret" /\ f.data.type = "string" =>
      IF f.data.str \in StatusValues(f.kind)
      THEN f.out.err = NoErr /\ f.s = f.data.str
      ELSE f.out.err # NoErr /\ f.s = f.s0

\* A string that another type declares was decoded into an order status that
\* held a value, and was refused.
C13_Witness ==
  \E f \in Calls("UnmarshalJSON") :
    /\ f.pc = "ret" /\ f.kind = "Order" /\ f.data = JSONString("revoked")
    /\ f.s0 = "pending" /\ f.s = "pending" /\ f.out.err # NoErr

\* C14: IsFinal is true exactly for the terminal statuses of the type:
\* Account deactivated, revoked; Order valid, invalid; Authorization valid,
\* invalid, deactivated, revoked; Challenge valid, invalid. pending, ready and
\* processing are never final, and every final status is well-formed.
C14_IsFinal ==
  \A f \in Calls("IsFinal") :
    f.pc = "ret" =>
      /\ f.is <=> \/ f.kind = "Account" /\ f.s \in {"deactivated", "revoked"}
                  \/ f.kind = "Order" /\ f.s \in {"valid", "invalid"}
                  \/ f.kind = "Authorization"
                     /\ f.s \in {"valid", "invalid", "deactivated", "revoked"}
                  \/ f.kind = "Challenge" /\ f.s \in {"valid", "invalid"}
      /\ f.s \in {"pending", "ready", "processing"} => ~f.is
      /\ f.is => IsWellFormed(f.kind, f.s)

\* IsFinal answered true for a valid authorization.
C14_Witness ==
  \E f \in Calls("IsFinal") :
    f.pc = "ret" /\ f.kind = "Authorization" /\ f.s = "valid" /\ f.is

\* The calls of doReq whose attempt has just ended with a response received.
Answered == {f \in Calls("doReq") : f.pc = "decide" /\ f.res.status # NoStatus}

\* C15: content-type enforcement. When a response destination is supplied
\* and the status is not an error status, the attempt succeeds only if the
\* Content-Type is application/json with no charset or with charset utf-8 in
\* any case, and the destination then holds the decoded body; with any other
\* Content-Type (text/plain, charset=latin1, none) the attempt returns an
\* error that is no HTTPError, and the destination is as it was.
C15_ContentType ==
  \A f \in Answered :
    f.req.responseData /\ ~(f.res.status >= 400 /\ f.res.status < 600) =>
      IF f.res.ctype \in {"application/json", JSONUtf8, JSONUTF8}
      THEN JSONValid(f.res.body) => f.err = NoErr /\ f.dest = DirectoryOf(f.res.body)
      ELSE f.err \notin {NoErr} /\ f.err.kind # "HTTPError" /\ f.dest = NoDir

\* A 200 response declared application/json with charset=latin1 was refused.
C15_Witness ==
  \E f \in Answered :
    /\ f.req.responseData /\ f.res.status = 200
    /\ f.res.ctype = JSONLatin1 /\ f.err # NoErr /\ f.dest = NoDir

\* C16: a response is turned into an HTTPError exactly when its status s has
\* 400 <= s < 600. The error carries the response; its Problem is the parsed
\* body when the Content-Type is application/problem+json and the body is
\* parseable, and nil otherwise; the response destination is not decoded into.
C16_HTTPError ==
  \A f \in Answered :
    /\ f.err.kind = "HTTPError" <=> (f.res.status >= 400 /\ f.res.status < 600)
    /\ f.err.kind = "HTTPError" =>
         /\ f.err.status = f.res.status
         /\ f.dest = NoDir
         /\ f.err.ptype = IF f.res.ctype = "application/problem+json" /\ JSONValid(f.res.body)
                          THEN ProblemType(f.res.body) ELSE "nil"

\* A response with status 599 and no Content-Type became an HTTPError without
\* a Problem for a call that supplied a destination.
C16_Witness ==
  \E f \in Answered :
    /\ f.res.status = 599 /\ f.req.responseData
    /\ f.err.kind = "HTTPError" /\ f.err.ptype = "nil" /\ f.dest = NoDir

\* The keys algorithmFromKey has no algorithm for: an ECDSA key on another
\* curve, a key of another type.
UnsupportedKeys == {"P-224", "ed25519"}

\* C17: the signing algorithm depends on the key alone: RS256 for an RSA
\* key, ES256, ES384 and ES512 for an ECDSA key on P-256, P-384 and P-521.
\* A signed request under any other curve or key type fails before a request
\* is sent and before a token is taken from the pool: the attempt ends with
\* an error in the step that checks the request, no call of Nonce is made,
\* and the pool is as it was.
C17_SigningAlgorithm ==
  /\ [](\A f \in SignedCalls :
         LET key == SigningKey(f.req) IN
         /\ f.alg # "-" =>
              \/ key = "rsa" /\ f.alg = "RS256"
              \/ key = "P-256" /\ f.alg = "ES256"
              \/ key = "P-384" /\ f.alg = "ES384"
              \/ key = "P-521" /\ f.alg = "ES512"
         /\ key \in UnsupportedKeys =>
              /\ f.alg = "-" /\ f.sent = 0 /\ f.tok = NoToken
              /\ f.pc \in {"decide", "ret"} => f.err # NoErr)
  /\ [][\A p \in Procs :
          /\ Steps(p, "doReq", "try")
          /\ Top(p).req.requestData
          /\ SigningKey(Top(p).req) \in UnsupportedKeys
          => /\ Len(stack'[p]) = Len(stack[p])
             /\ TopAfter(p).pc = "decide" /\ TopAfter(p).err # NoErr
             /\ pool' = pool]_vars

\* A request to be signed with a key on P-224 has failed while the pool held
\* a token.
C17_Witness ==
  \E f \in SignedCalls :
    /\ SigningKey(f.req) = "P-224" /\ f.pc = "decide"
    /\ f.err = Err("unsupported key") /\ f.att = 1 /\ pool # {}

\* C18: NewOrder succeeds only when the newOrder endpoint answered 201 with
\* a Location header that is a valid URL, and order.URL is then that
\* Location. When the answer is 200, or 201 with no Location or an invalid
\* one, NewOrder returns an error; whenever it returns an error, order.URL is
\* what it was at the call.
C18_NewOrder ==
  \A f \in Calls("NewOrder") :
    f.pc = "ret" =>
      /\ f.out.err = NoErr =>
           f.status = 201 /\ ValidURL(f.loc) /\ f.order.URL = f.loc
      /\ f.status = 200 => f.out.err # NoErr
      /\ f.status = 201 /\ (f.loc = "" \/ ~ValidURL(f.loc)) => f.out.err # NoErr
      /\ f.out.err # NoErr => f.order.URL = f.url0

\* NewOrder has replaced the URL of an order by the Location of a 201
\* response.
C18_Witness ==
  \E f \in Calls("NewOrder") :
    /\ f.pc = "ret" /\ f.out.err = NoErr /\ f.status = 201
    /\ f.url0 = ResURL /\ f.order.URL = NewURL

\* The account operations in progress.
AccountCalls == UNION {Calls(fn) : fn \in AccountOps}

\* C19: RegisterAccount and LocateAccount succeed only if the response has
\* status 200 or 201 and a Location header that is a valid URL, and acct.URL
\* is then that Location. UpdateAccount succeeds only if the response has
\* status 200 and no Location header, and acct.URL is then what it was.
\* Every other response makes the operation return an error, and whenever an
\* operation returns an error acct.URL is what it was at the call.
C19_AccountPost ==
  \A f \in AccountCalls :
    LET created == f.status \in {200, 201} /\ ValidURL(f.loc)
        updated == f.status = 200 /\ f.loc = "" IN
    f.pc = "ret" =>
      /\ f.fn \in {"RegisterAccount", "LocateAccount"} /\ f.out.err = NoErr =>
           created /\ f.acct.URL = f.loc
      /\ f.fn = "UpdateAccount" /\ f.out.err = NoErr =>
           updated /\ f.acct.URL = f.url0
      /\ f.status # NoStatus /\ ~(IF f.fn = "UpdateAccount" THEN updated ELSE created) =>
           f.out.err # NoErr
      /\ f.out.err # NoErr => f.acct.URL = f.url0

\* RegisterAccount has set the URL of an account to the Location of a 201
\* response.
C19_Witness ==
  \E f \in Calls("RegisterAccount") :
    /\ f.pc = "ret" /\ f.out.err = NoErr /\ f.status = 201
    /\ f.url0 = "" /\ f.acct.URL = NewURL

\* C20: RegisterAccount and LocateAccount on an account whose URL is set, and
\* UpdateAccount on an account whose URL is empty, return an error in their
\* first step: they call nothing (so no request is sent), the pool keeps its
\* tokens, and the account is as it was.
C20_AccountGuards ==
  /\ [](\A f \in AccountCalls :
         (f.url0 = "") = (f.fn = "UpdateAccount") /\ f.pc # "begin" =>
           /\ f.pc = "ret" /\ f.out.err # NoErr
           /\ f.status = NoStatus /\ f.acct.URL = f.url0)
  /\ [][\A p \in Procs :
          /\ AtAccountOp(p, "begin")
          /\ stack'[p] # stack[p]
          /\ (Top(p).acct.URL = "") = (Top(p).fn = "UpdateAccount")
          => /\ Len(stack'[p]) = Len(stack[p])
             /\ TopAfter(p).pc = "ret" /\ TopAfter(p).out.err # NoErr
             /\ TopAfter(p).acct = Top(p).acct
             /\ pool' = pool]_vars

\* UpdateAccount has refused an account without URL while the pool held a
\* token.
C20_Witness ==
  \E f \in Calls("UpdateAccount") :
    /\ f.pc = "ret" /\ f.url0 = "" /\ f.out.err # NoErr /\ pool # {}

\* C21: the payload of every account request has no status field or the
\* status "deactivated", and it has the field only when acct.Status was
\* deactivated when the operation was called.
C21_OnlyDeactivated ==
  \A f \in AccountCalls :
    /\ f.postAcct.status \in {Absent, "deactivated"}
    /\ f.postAcct.status # Absent => f.acct.Status = "deactivated"

\* The request of an UpdateAccount on a deactivated account is under way with
\* the status in its payload.
C21_Witness ==
  \E f \in Calls("UpdateAccount") :
    /\ f.pc = "posted" /\ f.acct.Status = "deactivated"
    /\ f.postAcct.status = "deactivated"

\* C22: LoadOrderOrCertificate decides by the content type of the response.
\* With application/json it sets order.URL to the requested URL, decodes the
\* document into the order, returns isCertificate = FALSE and leaves the
\* certificate as it was; with application/pem-certificate-chain it sets
\* cert.URL, loads the chain, returns isCertificate = TRUE and leaves the
\* order as it was. With any other content type, an invalid URL, an error
\* status or no response it returns an error.
C22_OrderOrCertificate ==
  \A f \in Calls("LoadOrderOrCertificate") :
    LET mt       == ParseMediaType(f.res.ctype)
        resolved == /\ ValidURL(f.url) /\ f.res.status # NoStatus
                    /\ ~(f.res.status >= 400 /\ f.res.status < 600)
                    /\ f.res.ctype \in {"application/json", PEMChain} IN
    f.pc = "ret" =>
      /\ resolved /\ f.res.ctype = "application/json" =>
           /\ ~f.isCertificate /\ f.cert = f.cert0 /\ f.order.URL = f.url
           /\ f.res.body = "{status:valid}" => f.out.err = NoErr /\ f.order.Status = "valid"
      /\ resolved /\ f.res.ctype = PEMChain =>
           /\ f.isCertificate /\ f.order = f.order0 /\ f.cert.URL = f.url
           /\ f.res.body = "pem" => f.out.err = NoErr /\ f.cert.CertificateChain = "chain"
      /\ ~resolved => f.out.err # NoErr

\* A URL that answered with a PEM chain has been loaded into a certificate
\* that had another URL, next to an order that is still what it was.
C22_Witness ==
  \E f \in Calls("LoadOrderOrCertificate") :
    /\ f.pc = "ret" /\ f.out.err = NoErr /\ f.isCertificate
    /\ f.cert0.URL = NewURL /\ f.cert.URL = ResURL /\ f.cert.CertificateChain = "chain"
    /\ f.order0.URL = NewURL /\ f.order = f.order0

\* C23: poll pacing. A WaitLoadOrder, WaitLoadAuthorization or WaitForOrder
\* issues its request only once the time recorded in the object as its next
\* poll has come, and a successful load records as that time the time of the
\* load plus 5 seconds when the response says Retry-After: 5, plus 10
\* seconds when it has no such header.
C23_Loading(f) == f.fn \in WaitOps /\ f.pc \in {"load", "loaded"}
C23_PollPacing ==
  /\ [](\A p \in Procs : \A i \in 1..Len(stack[p]) :
          C23_Loading(stack[p][i]) => now >= stack[p][i].obj.retryAt)
  /\ [][\A p \in Procs :
          (AtPollOp(p, "loaded") /\ ~Idle(p)' /\ Top(p)'.fn \in PollOps
           /\ (Top(p)'.pc = "check" \/ (Top(p)'.pc = "ret" /\ Top(p)'.out.err = NoErr)))
          => Top(p)'.obj.retryAt = now + (IF Top(p)'.ra = "5" THEN 5 ELSE 10)]_vars

\* A second load of an order that has waited ten seconds after the first.
C23_Witness ==
  \E p \in Procs :
    /\ AtPollOp(p, "loaded") /\ Top(p).fn = "WaitForOrder" /\ Top(p).loads = 2
    /\ Top(p).obj0.retryAt = 0 /\ Top(p).obj.retryAt = 10 /\ now = 10 /\ Top(p).ra = ""

\* C24: a WaitLoadOrder, WaitLoadAuthorization or WaitForOrder that leaves
\* its wait for the next poll without having passed it returns the error of
\* the cancelled context, has issued no request since, and has left the
\* object and the pool of tokens as they were; a WaitLoad that returns that
\* error has issued no request at all and holds the object it was given.
C24_Cancelled ==
  /\ [][\A p \in Procs :
          (AtPollOp(p, "wait") /\ ~Idle(p)' /\ Top(p)'.fn \in WaitOps /\ Top(p)'.pc = "ret")
          => /\ Top(p)'.out.err = ErrCanceled
             /\ Top(p)'.obj = Top(p).obj
             /\ Top(p)'.loads = Top(p).loads
             /\ Depth(p)' = Depth(p)
             /\ pool' = pool]_vars
  /\ [](\A p \in Procs :
          (~Idle(p) /\ Top(p).fn \in {"WaitLoadOrder", "WaitLoadAuthorization"}
           /\ Top(p).pc = "ret" /\ Top(p).out.err = ErrCanceled)
          => Top(p).loads = 0 /\ Top(p).obj = Top(p).obj0)

\* A WaitForOrder cancelled in its wait for the second poll, with a token
\* of the first response in the pool.
C24_Witness ==
  \E p \in Procs :
    /\ AtPollOp(p, "ret") /\ Top(p).fn = "WaitForOrder" /\ Top(p).out.err = ErrCanceled
    /\ Top(p).loads = 1 /\ pool # {} /\ now < Top(p).obj.retryAt

(***************************************************************************)
(* The goroutine that polls, alone with its server: it keeps running,      *)
(* every transport call returns and time passes while it waits.            *)
(***************************************************************************)
InitWait == Init /\ srv.mode = "poll"

NextWait ==
  \E p \in Procs :
    \/ CallPollOp(p)
    \/ WaitForOrderCheck(p)
    \/ WaitUntilPassed(p)
    \/ WaitUntilCancelled(p)
    \/ Tick(p)
    \/ PollLoad(p)
    \/ PollLoaded(p)
    \/ DoReqTry(p)
    \/ DoReqSend(p)
    \/ DoReqDiscover(p)
    \/ DoReqLearn(p)
    \/ DoReqDecide(p)
    \/ ReturnStep(p)

SpecWait == InitWait /\ [][NextWait]_vars /\ WF_vars(NextWait)

\* No wait of the scenario ends later than the clock runs.
ClockSuffices ==
  \A p \in Procs : AtPollOp(p, "wait") => Top(p).obj.retryAt <= MaxClock

\* C25: WaitForOrder returns nil only with an order whose status is set and
\* is not processing; called with such an order it returns nil without
\* having issued a request; otherwise it waits and reloads until then, and
\* the first error of a load or of the cancelled wait ends it and is what it
\* returns; and with a server that in the end reports the order as no longer
\* processing it does return.
C25_InWaitForOrder(pcs) ==
  \E p \in Procs : \E i \in 1..Len(stack[p]) :
    stack[p][i].fn = "WaitForOrder" /\ stack[p][i].pc \in pcs
C25_Finished(order) == order.Status # "" /\ order.Status # "processing"
C25_WaitForOrder ==
  /\ [](\A p \in Procs : At(p, "WaitForOrder", "ret") =>
          /\ Top(p).out.err = NoErr => C25_Finished(Top(p).obj)
          /\ C25_Finished(Top(p).obj0) =>
                Top(p).out.err = NoErr /\ Top(p).loads = 0 /\ Top(p).obj = Top(p).obj0)
  /\ [][\A p \in Procs :
          /\ (At(p, "WaitForOrder", "loaded") /\ Top(p).ret.err # NoErr)
               => At(p, "WaitForOrder", "ret")' /\ Top(p)'.out.err = Top(p).ret.err
          /\ (At(p, "WaitForOrder", "loaded") /\ Top(p).ret.err = NoErr)
               => At(p, "WaitForOrder", "check")'
          /\ (At(p, "WaitForOrder", "wait") /\ At(p, "WaitForOrder", "ret")')
               => Top(p)'.out.err = ErrCanceled
          /\ (At(p, "WaitForOrder", "check") /\ ~C25_Finished(Top(p).obj))
               => At(p, "WaitForOrder", "wait")']_vars
  /\ []ClockSuffices
  /\ (C25_InWaitForOrder({"check", "wait", "load", "loaded"}) ~> C25_InWaitForOrder({"ret"}))

\* A WaitForOrder that has returned nil after two polls of an order that
\* was processing at the first.
C25_Witness ==
  \E p \in Procs :
    /\ At(p, "WaitForOrder", "ret") /\ Top(p).out.err = NoErr /\ Top(p).loads = 2
    /\ Top(p).obj0.Status = "" /\ Top(p).obj.Status = "valid" /\ srv.busy = 0

\* C26: a LoadAuthorization, WaitLoadAuthorization or NewAuthorization that
\* returns nil holds an authorization with at least one challenge: with the
\* authorization decoded having none, it returns an error.
C26_Challenges ==
  \A p \in Procs :
    /\ (AtPollOp(p, "ret") /\ KindOf(Top(p).fn) = "Authorization" /\ Top(p).out.err = NoErr)
         => Top(p).loads > 0 /\ Top(p).obj.Challenges >= 1
    /\ (At(p, "NewAuthorization", "ret") /\ Top(p).out.err = NoErr)
         => Top(p).az.Challenges >= 1 /\ ValidURL(Top(p).az.URL)

\* NewAuthorization has refused an authorization the server created without
\* challenges.
C26_Witness ==
  \E p \in Procs :
    /\ At(p, "NewAuthorization", "ret") /\ Top(p).out.err = Err("no challenges offered")
    /\ Top(p).az.Challenges = 0 /\ Top(p).az.Status = "pending" /\ ValidURL(Top(p).az.URL)

\* C27: the doReq of a Revoke, which is made when the directory has a
\* revokeCert endpoint, gets as far as signing its request, with the
\* revocation key if the caller gave one and with the key of the account
\* otherwise, and a Revoke that returns nil has sent it.
C27_RevokeSigns ==
  \A p \in Procs :
    (At(p, "doReq", "ret") /\ Depth(p) > 1 /\ stack[p][Depth(p) - 1].fn = "Revoke")
    => LET caller == stack[p][Depth(p) - 1]
           key == IF caller.revocationKey # "nil" THEN caller.revocationKey
                  ELSE caller.acct.PrivateKey IN
       /\ Top(p).req.url = caller.di.RevokeCert
       /\ Top(p).alg = algorithmFromKey(key)
       /\ Top(p).out.err = NoErr => Top(p).sent > 0

\* C28: an operation of the client whose doReq has returned an error returns
\* an error to its caller, also when the status of the response is one the
\* operation expects and the response failed the check of its content type
\* or the decoding of its body.
SessionOps == AccountOps \cup {"NewOrder"} \cup PollOps \cup PostOps
C28_NoErrorSwallowed ==
  \A p \in Procs :
    (~Idle(p) /\ Top(p).fn \in SessionOps /\ Top(p).pc = "ret" /\ Top(p).err # NoErr)
    => Top(p).out.err # NoErr

(***************************************************************************)
(* The goroutines of one client under a fair scheduler, with a server that *)
(* answers every request: signed requests, which take their nonce from the *)
(* pool and refill it through getDirectory and a HEAD request, and calls   *)
(* of getDirectory. The sections under poolMutex (nonce.go:53-63, 75-80)   *)
(* and directoryURLMutex (api-res.go:1002-1008, 1396-1407) make no call    *)
(* and take no other lock: each is one step. A goroutine that waits for    *)
(* dirMutex gets it once it is free often enough (sync.Mutex hands the     *)
(* lock to a starving waiter).                                             *)
(***************************************************************************)
InitLocks ==
  /\ pool = {}
  /\ GetNonceFunc = "obtainNewNonce"
  /\ directoryURL \in {"", DirURL1}
  /\ dir = NoDir
  /\ dirMutex = NoProc
  /\ srv = [mode |-> "locks", bad |-> 0, busy |-> 0]
  /\ now = 0
  /\ stack = [p \in Procs |-> <<>>]
  /\ taken = {}
  /\ twice = FALSE

LockStep(p) ==
  \/ CallDoReq(p)
  \/ CallGetDirectory(p)
  \/ DoReqTry(p)
  \/ DoReqSigned(p)
  \/ DoReqSend(p)
  \/ DoReqDiscover(p)
  \/ DoReqLearn(p)
  \/ DoReqDecide(p)
  \/ NonceTryPop1(p)
  \/ NonceObtain(p)
  \/ NonceTryPop2(p)
  \/ ObtainBegin(p)
  \/ ObtainGotDir(p)
  \/ ObtainHeaded(p)
  \/ GetDirBegin(p)
  \/ GetDirLock(p)
  \/ GetDirRecheck(p)
  \/ GetDirActual(p)
  \/ GetDirFetched(p)
  \/ GetDirUnlock(p)
  \/ ReturnStep(p)

NextLocks == \E p \in Procs : LockStep(p)

SpecLocks ==
  /\ InitLocks /\ [][NextLocks]_vars
  /\ \A p \in Procs : WF_vars(LockStep(p)) /\ SF_vars(GetDirLock(p))

\* C29: with goroutines using one client at once, every transport call
\* returning, a goroutine that waits for dirMutex gets it, every operation
\* returns, and dirMutex is held only by a goroutine inside getDirectory.
C29_WaitsForLock(p) == ~Idle(p) /\ Top(p).fn = "getDirectory" /\ Top(p).pc = "lock"
C29_InGetDirectory(p) ==
  \E i \in 1..Len(stack[p]) :
    stack[p][i].fn = "getDirectory" /\ stack[p][i].pc \in {"recheck", "actual", "fetched", "unlock"}
C29_DeadlockFree ==
  /\ [](\A p \in Procs : dirMutex = p <=> C29_InGetDirectory(p))
  /\ \A p \in Procs : C29_WaitsForLock(p) ~> ~C29_WaitsForLock(p)
  /\ \A p \in Procs : ~Idle(p) ~> Idle(p)

\* Two signed requests have missed the pool: the refill of one holds
\* dirMutex and has its directory request on the way, the refill of the
\* other waits for the lock.
C29_Witness ==
  \E p, q \in Procs :
    /\ p # q /\ C29_WaitsForLock(p) /\ dirMutex = q
    /\ stack[p][1].fn = "doReq" /\ stack[p][1].req.requestData
    /\ stack[q][1].fn = "doReq" /\ stack[q][1].req.requestData
    /\ At(q, "doReq", "discover") /\ Depth(q) > 4

\* C30: when the transport call of a request fails, as it does when the
\* context is cancelled, the pool, the directory URL, the cached directory
\* and the destination of the response are as before the call; doReq then
\* returns that error without another attempt and without touching them;
\* and the operation that called doReq returns that error, its object and
\* the state of the client unchanged.
C30_Aborted == Err("transport")
C30_Object(f) ==
  CASE f.fn \in AccountOps -> f.acct
    [] f.fn = "NewOrder"   -> f.order
    [] f.fn \in PollOps    -> f.obj
    [] f.fn \in PostOps    -> f.az
C30_ClientUnchanged ==
  pool' = pool /\ directoryURL' = directoryURL /\ dir' = dir /\ dirMutex' = dirMutex
C30_NoSideEffects ==
  [][\A p \in Procs :
      /\ (At(p, "doReq", "send") /\ At(p, "doReq", "decide")' /\ Top(p)'.err = C30_Aborted)
           => C30_ClientUnchanged /\ Top(p)'.dest = Top(p).dest
      /\ (At(p, "doReq", "decide") /\ Top(p).err = C30_Aborted /\ stack'[p] # stack[p])
           => /\ At(p, "doReq", "ret")' /\ Top(p)'.out.err = C30_Aborted
              /\ Top(p)'.out.dir = NoDir /\ Top(p)'.dest = Top(p).dest
              /\ Top(p)'.att = Top(p).att /\ Top(p)'.sent = Top(p).sent
              /\ C30_ClientUnchanged
      /\ (~Idle(p) /\ Top(p).fn \in SessionOps /\ Top(p).pc \in {"posted", "loaded"}
           /\ Top(p).ret.err = C30_Aborted /\ stack'[p] # stack[p])
           => /\ ~Idle(p)' /\ Top(p)'.fn = Top(p).fn /\ Top(p)'.pc = "ret"
              /\ Top(p)'.out.err = C30_Aborted
              /\ C30_Object(Top(p)') = C30_Object(Top(p))
              /\ C30_ClientUnchanged
      /\ (At(p, "getDirectory", "fetched") /\ Top(p).ret.err = C30_Aborted
           /\ stack'[p] # stack[p])
           => Top(p)'.out.err = C30_Aborted /\ dir' = dir /\ directoryURL' = directoryURL
              /\ pool' = pool]_vars

\* A signed request whose second attempt, made after a badNonce answer, was
\* aborted: doReq has returned after two attempts.
C30_Witness ==
  \E p \in Procs :
    /\ At(p, "doReq", "ret") /\ Top(p).out.err = C30_Aborted
    /\ Top(p).req.requestData /\ Top(p).att = 2 /\ Top(p).sent = 2

(***************************************************************************)
(* The goroutine whose signed requests the server answers with badNonce    *)
(* every time: it keeps running, every transport call returns and every    *)
(* sleep of the backoff ends.                                              *)
(***************************************************************************)
InitRetry == Init /\ srv.mode = "stale"

NextRetry ==
  \E p \in Procs :
    \/ CallDoReq(p)
    \/ DoReqTry(p)
    \/ DoReqSigned(p)
    \/ DoReqSend(p)
    \/ DoReqDiscover(p)
    \/ DoReqDecide(p)
    \/ NonceTryPop1(p)
    \/ NonceObtain(p)
    \/ NonceTryPop2(p)
    \/ ObtainBegin(p)
    \/ ObtainGotDir(p)
    \/ ObtainHeaded(p)
    \/ GetDirBegin(p)
    \/ GetDirLock(p)
    \/ GetDirRecheck(p)
    \/ GetDirActual(p)
    \/ GetDirFetched(p)
    \/ GetDirUnlock(p)
    \/ ReturnStep(p)

SpecRetry == InitRetry /\ [][NextRetry]_vars /\ WF_vars(NextRetry)

\* C31: the retry loop terminates. Against a server that answers badNonce
\* to every signed request, a call of doReq repeats its attempt at most
\* MaxTries times, which makes MaxTries + 1 attempts, the last of them
\* returns the badNonce HTTPError to the caller, and every call returns.
C31_RetryTerminates ==
  /\ [](\A f \in Calls("doReq") :
          /\ f.tries <= MaxTries /\ f.att <= MaxTries + 1 /\ f.sent <= f.att
          /\ (f.pc = "ret" /\ f.req.requestData) =>
                /\ f.out.err # NoErr
                /\ f.out.err.kind = "HTTPError" => IsBadNonce(f.out.err)
                /\ IsBadNonce(f.out.err) => f.att = MaxTries + 1)
  /\ ((Calls("doReq") # {}) ~> (\E f \in Calls("doReq") : f.pc = "ret"))

\* The call has returned the badNonce error of its last attempt, every one
\* of its MaxTries + 1 requests having been sent and refused.
C31_Witness ==
  \E f \in SignedCalls :
    /\ f.pc = "ret" /\ IsBadNonce(f.out.err) /\ f.out.err.status = 400
    /\ f.tries = MaxTries /\ f.sent = MaxTries + 1

\* C32: the cached directory is absent or a document whose newNonce,
\* newAccount and newOrder are valid URLs; once present it never changes;
\* and a getDirectory that begins with a directory cached returns that
\* directory at once, making no request and leaving dirMutex alone.
C32_DirectoryCache ==
  /\ [](dir = NoDir \/ EndpointsValid(dir))
  /\ [][/\ dir # NoDir => dir' = dir
         /\ \A p \in Procs :
              (At(p, "getDirectory", "begin") /\ dir # NoDir /\ stack'[p] # stack[p])
              => /\ At(p, "getDirectory", "ret")' /\ Depth(p)' = Depth(p)
                 /\ Top(p)'.out.dir = dir /\ Top(p)'.out.err = NoErr
                 /\ ~Top(p)'.own /\ dirMutex' = dirMutex]_vars

\* A getDirectory has returned the directory another call had fetched and
\* cached, without a request of its own and without having waited.
C32_Witness ==
  \E p \in Procs :
    /\ At(p, "getDirectory", "ret") /\ ~Top(p).own /\ ~Top(p).waited
    /\ dir # NoDir /\ Top(p).out.dir = dir /\ Top(p).out.err = NoErr

\* C33: a request with a payload is signed with the key given to doReq if
\* there is one and with the PrivateKey of the account otherwise; with no
\* account, or with neither key, every attempt fails before anything is
\* signed or sent.
C33_NoCaller(req) ==
  req.acct.ref = "nil" \/ (req.key = "nil" /\ req.acct.PrivateKey = "nil")
C33_KeySelection ==
  \A f \in SignedCalls :
    /\ f.alg # "-" =>
         /\ ~C33_NoCaller(f.req)
         /\ f.alg = algorithmFromKey(IF f.req.key # "nil" THEN f.req.key
                                     ELSE f.req.acct.PrivateKey)
    /\ C33_NoCaller(f.req) =>
         /\ f.sent = 0 /\ f.alg = "-" /\ f.att <= 1
         /\ f.pc \in {"decide", "ret"} =>
              f.err \in {Err("must provide account object"), Err("account key must be specified")}

\* The request given a P-384 key for an account with a P-256 key has been
\* sent under ES384.
C33_Witness ==
  \E f \in SignedCalls :
    /\ f.req.key = "P-384" /\ f.req.acct.PrivateKey = "P-256"
    /\ f.alg = "ES384" /\ f.sent = 1

\* C34: the protected header of a signed request carries either the key
\* or a key id, never both and never neither: the key if and only if the
\* account given to doReq is noAccountNeeded, and otherwise the URL of the
\* account as key id, which is a valid URL; a request for an account whose
\* URL is not valid fails before it is signed or sent. The url of the
\* header is the URL of the request.
C34_ProtectedHeader ==
  \A f \in SignedCalls :
    /\ f.sent > 0 => f.hdr # NoHeader
    /\ f.hdr # NoHeader =>
         /\ (f.hdr.jwk = "-") # (f.hdr.kid = "-")
         /\ f.hdr.jwk # "-" <=> f.req.acct.ref = "noAccountNeeded"
         /\ f.hdr.jwk # "-" => f.hdr.jwk \notin {"nil"}
         /\ f.hdr.kid # "-" => f.hdr.kid = f.req.acct.URL /\ ValidURL(f.hdr.kid)
         /\ f.hdr.url = f.req.url
    /\ (f.req.acct.ref # "noAccountNeeded" /\ ~ValidURL(f.req.acct.URL)) =>
         f.hdr = NoHeader /\ f.sent = 0

\* A registration has been sent with the key embedded, its account having
\* no URL yet.
C34_Witness ==
  \E f \in SignedCalls :
    /\ f.sent = 1 /\ f.req.acct.ref = "noAccountNeeded" /\ f.req.url = DirA.NewAccount
    /\ f.hdr.jwk = "rsa" /\ f.hdr.kid = "-" /\ f.hdr.url = DirA.NewAccount

\* C35: a request without a payload takes no token: it is not signed, it
\* asks the nonce source for nothing and carries no token. The requests of
\* getDirectory and of obtainNewNonce are such requests, so that no call
\* of Nonce is made inside the refill of another and no call of
\* getDirectory inside the fetch of another.
C35_Count(s, fn) == Cardinality({i \in 1..Len(s) : s[i].fn = fn})
C35_Unsigned ==
  \A p \in Procs :
    LET s == stack[p] IN
    /\ C35_Count(s, "Nonce") <= 1 /\ C35_Count(s, "getDirectory") <= 1
    /\ \A i \in 1..Len(s) :
         /\ (s[i].fn = "doReq" /\ ~s[i].req.requestData) =>
              /\ s[i].tok = NoToken /\ s[i].toks = {} /\ s[i].hdr = NoHeader
              /\ i < Len(s) => s[i + 1].fn # "Nonce"
         /\ (s[i].fn = "Nonce" /\ i > 1) =>
              s[i - 1].fn = "doReq" /\ s[i - 1].req.requestData
         /\ (s[i].fn \in {"getDirectory", "obtainNewNonce"} /\ i < Len(s)
              /\ s[i + 1].fn = "doReq") => ~s[i + 1].req.requestData

\* The HEAD request of a refill is on its way, made for a signed request
\* that found the pool empty, a token being in the pool by now.
C35_Witness ==
  \E p \in Procs :
    /\ Depth(p) = 4 /\ stack[p][1].fn = "doReq" /\ stack[p][1].req.requestData
    /\ stack[p][2].fn = "Nonce" /\ stack[p][3].fn = "obtainNewNonce"
    /\ At(p, "doReq", "discover") /\ Top(p).req.method = "HEAD"
    /\ pool # {}

\* C36: a request that doReqOneTry refuses before it sends (its URL is no
\* valid https URL, or it has a payload and no account, no key, a key of
\* an unsupported type, or an account without a valid URL to sign for)
\* ends in an error after one attempt that takes no token, asks the nonce
\* source for nothing, sends nothing and leaves the pool as it is.
C36_Refused(req) ==
  \/ ~ValidURL(req.url)
  \/ /\ req.requestData
     /\ LET key == IF req.key # "nil" THEN req.key ELSE req.acct.PrivateKey IN
        \/ req.acct.ref = "nil"
        \/ key = "nil"
        \/ key \notin {"rsa", "P-256", "P-384", "P-521"}
        \/ req.acct.ref # "noAccountNeeded" /\ ~ValidURL(req.acct.URL)
C36_RejectedUnsent ==
  /\ [](\A f \in Calls("doReq") : C36_Refused(f.req) =>
          /\ f.sent = 0 /\ f.att <= 1 /\ f.tok = NoToken /\ f.toks = {}
          /\ f.pc \in {"try", "decide", "ret"}
          /\ f.pc \in {"decide", "ret"} => f.err # NoErr
          /\ f.pc = "ret" => f.out.err = f.err)
  /\ [][\A p \in Procs :
          (~Idle(p) /\ Top(p).fn = "doReq" /\ C36_Refused(Top(p).req)
           /\ stack'[p] # stack[p])
          => /\ pool' = pool /\ GetNonceFunc' = GetNonceFunc /\ srv' = srv
             /\ directoryURL' = directoryURL /\ dir' = dir
             /\ Depth(p)' <= Depth(p)]_vars

\* A signed request for an account without a URL has been refused while a
\* token was in the pool.
C36_Witness ==
  \E f \in SignedCalls :
    /\ f.pc = "ret" /\ f.out.err = Err("acct must have a valid URL")
    /\ f.req.acct.ref = "acct" /\ f.req.acct.URL = "" /\ pool # {}

\* C37: a load that succeeds leaves in the object the status the document
\* of the server names, whatever status the object held, a final one
\* included, and the status it held if the document names none; and the
\* requests of the loads are GETs without a payload, which ask the server
\* for no change.
C37_Reported(body) ==
  CASE body \in {"{status:pending,challenges:[c]}", "{status:pending}"} -> "pending"
    [] body \in {"{status:valid,challenges:[c]}", "{status:valid}"}     -> "valid"
    [] body = "{status:revoked}"    -> "revoked"
    [] body = "{status:processing}" -> "processing"
    [] OTHER                        -> ""
C37_NoOrdering ==
  /\ [][\A p \in Procs :
          (AtPollOp(p, "loaded") /\ ~Idle(p)' /\ Top(p)'.fn \in PollOps
           /\ (Top(p)'.pc = "check" \/ (Top(p)'.pc = "ret" /\ Top(p)'.out.err = NoErr)))
          => LET reported == C37_Reported(Top(p).ret.res.body) IN
             Top(p)'.obj.Status = IF reported = "" THEN Top(p).obj.Status ELSE reported]_vars
  /\ [](\A p \in Procs : \A i \in 1..Len(stack[p]) :
          (i > 1 /\ stack[p][i].fn = "doReq" /\ stack[p][i - 1].fn \in PollOps)
          => stack[p][i].req.method = "GET" /\ ~stack[p][i].req.requestData)

\* LoadAuthorization has taken an authorization from valid to revoked.
C37_Witness ==
  \E p \in Procs :
    /\ AtPollOp(p, "ret") /\ Top(p).fn = "LoadAuthorization" /\ Top(p).out.err = NoErr
    /\ Top(p).obj0.Status = "valid" /\ Top(p).obj.Status = "revoked"

\* C38: a fetch of the directory that failed caches nothing. A getDirectory
\* that has an error to return and still holds dirMutex sees no directory
\* cached; the error is that of its own attempt, the request it made
\* itself or the refusal of an unknown directory URL, never the error of
\* an earlier call; and a getDirectory that finds no directory cached goes
\* on to the lock and from there to an attempt of its own.
C38_FailureNotCached ==
  /\ [](\A f \in Calls("getDirectory") :
          /\ (f.pc = "unlock" /\ f.out.err # NoErr) => dir = NoDir
          /\ (f.pc \in {"unlock", "ret"} /\ f.out.err # NoErr)
             => f.own \/ f.out.err = ErrUnknownDirectoryURL)
  /\ [][\A p \in Procs :
          /\ (At(p, "getDirectory", "begin") /\ dir = NoDir /\ stack'[p] # stack[p])
             => At(p, "getDirectory", "lock")'
          /\ (At(p, "getDirectory", "recheck") /\ dir = NoDir /\ stack'[p] # stack[p])
             => At(p, "getDirectory", "actual")'
          /\ (At(p, "getDirectory", "actual") /\ directoryURL # "" /\ stack'[p] # stack[p])
             => /\ Depth(p)' = Depth(p) + 1 /\ At(p, "doReq", "try")'
                /\ Top(p)'.req = DirectoryReq(directoryURL)
          /\ (At(p, "getDirectory", "fetched") /\ stack'[p] # stack[p]
              /\ At(p, "getDirectory", "unlock")' /\ Top(p)'.out.err # NoErr)
             => dir' = NoDir]_vars

\* A getDirectory that waited for the lock while the fetch of another call
\* failed has sent a request of its own and has its answer.
C38_Witness ==
  \E f \in Calls("getDirectory") :
    f.waited /\ f.want.err # NoErr /\ f.own /\ f.pc = "fetched" /\ dir = NoDir

\* C39: a load that returns an error, that of doReq or that of validate,
\* leaves the time of the next poll recorded in the object as it was; the
\* time recorded changes only in the step of a load that succeeds; and an
\* operation that loads once and returns an error returns the object with
\* the time it had at the call.
C39_RetryAtKept ==
  /\ [][\A p \in Procs :
          (~Idle(p) /\ Top(p).fn \in PollOps /\ Depth(p)' = Depth(p) /\ Top(p)'.fn = Top(p).fn
           /\ Top(p)'.obj.retryAt # Top(p).obj.retryAt)
          => /\ AtPollOp(p, "loaded") /\ Top(p).ret.err = NoErr
             /\ validate(KindOf(Top(p).fn), Top(p)'.obj) = NoErr
             /\ Top(p)'.pc = "check" \/ (Top(p)'.pc = "ret" /\ Top(p)'.out.err = NoErr)]_vars
  /\ [](\A f \in UNION {Calls(fn) : fn \in PollOps \ {"WaitForOrder"}} :
          (f.pc = "ret" /\ f.out.err # NoErr) => f.obj.retryAt = f.obj0.retryAt)

\* LoadAuthorization was given an authorization with a time to poll next,
\* the request succeeded and the document it decoded offers no challenge.
C39_Witness ==
  \E p \in Procs :
    /\ AtPollOp(p, "ret") /\ Top(p).fn \in {"LoadAuthorization", "WaitLoadAuthorization"}
    /\ Top(p).err = NoErr /\ Top(p).out.err = Err("no challenges offered")
    /\ Top(p).obj0.Challenges = 1 /\ Top(p).obj.Challenges = 0
    /\ Top(p).obj.retryAt = Top(p).obj0.retryAt /\ Top(p).obj.retryAt > 0

\* C40: with goroutines calling Nonce on an empty pool at once, a Nonce
\* call whose own refill callback added a token the pool did not hold and
\* returned nil returns a token and no error, whatever the other calls did
\* between its refill and its second tryPop.
C40_RefillSuffices ==
  \A p \in Procs :
    (/\ At(p, "Nonce", "ret") /\ Top(p).empty0 /\ Top(p).n = 1
     /\ Top(p).ret.err = NoErr /\ Top(p).cbFresh)
    => Top(p).out.tok # NoToken /\ Top(p).out.err = NoErr
====
